---- MODULE Spec2Model ----
(***************************************************************************)
(* Texas Hold'em table engine (src/poker): the betting / turn state        *)
(* machine of PokerTable, the blind schedule, the deck and the hand        *)
(* evaluator, as a state machine with one action per public operation.     *)
(***************************************************************************)
EXTENDS Integers, Sequences, FiniteSets, TLC

VARIABLES chips, hand, folded, community, deck, hand_number, hand_index,
          big_blind_index, street, pot, current_bets, current_bet_amount,
          hand_active, to_act_index, pending_to_act, ai_timer, sb_amount,
          bb_amount, last_action_text, raised, street_log, hand_start_chips, raises,
          acted, dealt_only, draws, hand_score, cpu_call

\* street_log lists every value assigned to `street` since the hand state was reset;
\* hand_start_chips is the chip total on entry to start_new_hand(); raises counts
\* the hand's Bet / Raise actions; acted says an action was applied in this game;
\* dealt_only says the current hand was dealt after the game's played hand and is
\* explored no further than its deal; draws counts the successful draw() calls made
\* on the deck itself (DeckSpec) since its last reset(); hand_score is what the hand
\* evaluator returned for the cards laid out (EvalSpec), <<>> before it is called;
\* cpu_call is what the last call of a CPUPlayer method drew and returned, <<>>
\* before any such call.
\* raised is the exception that left the last call, "none" when it returned.
vars == <<chips, hand, folded, community, deck, hand_number, hand_index,
          big_blind_index, street, pot, current_bets, current_bet_amount,
          hand_active, to_act_index, pending_to_act, ai_timer, sb_amount,
          bb_amount, last_action_text, raised, street_log, hand_start_chips, raises,
          acted, dealt_only, draws, hand_score, cpu_call>>

----------------------------------------------------------------------------
(* Bounds of the model *)

\* start_new_hand() is taken while hand_number < MaxHands
MaxHands == 3

\* Bet / Raise inputs are taken while fewer than MaxRaises were applied in the hand
MaxRaises == 1

\* in the game's first hand ReRaise takes Bet / Raise inputs up to MaxReRaises
MaxReRaises == 3

\* the outcomes of Deck.shuffle() that are explored: ShuffleOrder(k), k a seed
ShuffleSeeds == {3}

----------------------------------------------------------------------------
(* Program constants *)

NumPlayers == 5
StartingChips == 1000
HoleCards == 2
FlopCards == 3
TurnCards == 1
RiverCards == 1
DeckSize == 52
NumRanks == 13
HumanSeat == 0
None == -1

InitSmallBlind == 10
InitBigBlind == 20
HandsPerLevel == 5
NumLevels == 10
GrowthNum == 3
GrowthDen == 2

\* CPUPersonality (auto() numbering) and the personalities seated by PokerTable
AGGRESSIVE == 1
NEUTRAL == 2
DEFENSIVE == 3
Iters == 70

Seats == 0 .. (NumPlayers - 1)
CPUSeats == Seats \ {HumanSeat}
Personality(seat) ==
    IF seat = 2 THEN DEFENSIVE ELSE IF seat = 3 THEN AGGRESSIVE ELSE NEUTRAL
SeatSeq == [i \in 1 .. NumPlayers |-> i - 1]

FOLD == 0
CHECK == 1
CALL == 2
BET == 3
RAISE == 4
Actions == {FOLD, CHECK, CALL, BET, RAISE}

PRE_FLOP == 1
FLOP == 2
TURN == 3
RIVER == 4
SHOWDOWN == 5

\* raise_to_total inputs: None (omitted), below the bet level, a mid raise, above every stack
RaiseTotals == {None, 25, 1000}

\* think times (tenths of a second) sampled from uniform(think_min, think_max)
ThinkMin == 8
ThinkMax == 18
ThinkTimes == {ThinkMin, ThinkMax}
\* frame times (tenths of a second) passed to update(dt)
Dts == {10}

----------------------------------------------------------------------------
(* Small helpers for Python built-ins *)

Max(a, b) == IF a >= b THEN a ELSE b
Min(a, b) == IF a <= b THEN a ELSE b
SetMax(S, default) == IF S = {} THEN default ELSE CHOOSE x \in S : \A y \in S : y <= x
SetMin(S) == CHOOSE x \in S : \A y \in S : x <= y

RECURSIVE SumOver(_, _)
SumOver(f, S) ==
    IF S = {} THEN 0
    ELSE LET x == CHOOSE y \in S : TRUE IN f[x] + SumOver(f, S \ {x})

\* dict.get(k, 0) and d[k] = v on a dict modelled as a function on its keys
Get(d, k) == IF k \in DOMAIN d THEN d[k] ELSE 0
Put(d, k, v) == [x \in (DOMAIN d) \cup {k} |-> IF x = k THEN v ELSE d[x]]
EmptyDict == [x \in {} |-> 0]
Values(d) == {d[k] : k \in DOMAIN d}

SeqToSet(q) == {q[i] : i \in 1 .. Len(q)}

RECURSIVE Pow(_, _)
Pow(b, e) == IF e = 0 THEN 1 ELSE b * Pow(b, e - 1)

----------------------------------------------------------------------------
(* Blind schedule: rules.py *)

\* round(num/den) with Python's round-half-to-even
RoundHalfEven(num, den) ==
    LET q == num \div den
        r == num % den
    IN  IF 2 * r < den THEN q
        ELSE IF 2 * r > den THEN q + 1
        ELSE IF q % 2 = 0 THEN q ELSE q + 1

\* round_to_5(x) for x = num/den: max(5, int(round(x / 5.0) * 5))
round_to_5(num, den) == Max(5, RoundHalfEven(num, 5 * den) * 5)

\* the list `built`: level k (0-based) holds the blinds grown k times
BuiltLevel(sb, bb, hpl, k) ==
    [small_blind |-> round_to_5(sb * Pow(GrowthNum, k), Pow(GrowthDen, k)),
     big_blind |-> round_to_5(bb * Pow(GrowthNum, k), Pow(GrowthDen, k)),
     hands_per_level |-> hpl]

\* the list `fixed`: big blind pushed above the small blind after rounding
FixedLevel(lvl) ==
    [lvl EXCEPT !.big_blind = IF lvl.big_blind <= lvl.small_blind
                              THEN lvl.small_blind + 5 ELSE lvl.big_blind]

default_blind_structure(sb, bb, hpl, levels) ==
    [k \in 1 .. levels |-> FixedLevel(BuiltLevel(sb, bb, hpl, k - 1))]

\* BlindLevel.__post_init__: the error the values of a level raise
blind_level_error(lvl) ==
    IF lvl.small_blind <= 0 \/ lvl.big_blind <= 0 THEN "ValueError"
    ELSE IF lvl.big_blind <= lvl.small_blind THEN "ValueError"
    ELSE IF lvl.hands_per_level <= 0 THEN "ValueError"
    ELSE "none"

\* the error a call of default_blind_structure raises: its argument checks, then
\* the BlindLevel constructed for every level of `built`, then for every level of
\* `fixed`; default_blind_structure above is the value returned when there is none
blind_structure_error(sb, bb, hpl, levels) ==
    IF sb <= 0 \/ bb <= 0 THEN "ValueError"
    ELSE IF bb <= sb THEN "ValueError"
    ELSE IF hpl <= 0 THEN "ValueError"
    ELSE IF levels <= 0 THEN "ValueError"
    ELSE IF GrowthNum <= GrowthDen THEN "ValueError"
    ELSE IF \E k \in 0 .. (levels - 1) :
                blind_level_error(BuiltLevel(sb, bb, hpl, k)) # "none"
    THEN "ValueError"
    ELSE IF \E k \in 0 .. (levels - 1) :
                blind_level_error(FixedLevel(BuiltLevel(sb, bb, hpl, k))) # "none"
    THEN "ValueError"
    ELSE "none"

\* PokerTable.blinds.levels
Levels == default_blind_structure(InitSmallBlind, InitBigBlind, HandsPerLevel, NumLevels)

\* a faulty walk: a level ends one hand early (< for <=)
RECURSIVE LevelWalk_strict(_, _, _, _)
LevelWalk_strict(levels, hands_played, i, total) ==
    IF i > Len(levels) THEN Len(levels) - 1
    ELSE IF hands_played < total + levels[i].hands_per_level THEN i - 1
    ELSE LevelWalk_strict(levels, hands_played, i + 1, total + levels[i].hands_per_level)

RECURSIVE LevelWalk(_, _, _, _)
LevelWalk(levels, hands_played, i, total) ==
    IF i > Len(levels) THEN Len(levels) - 1
    ELSE IF hands_played <= total + levels[i].hands_per_level THEN i - 1
    ELSE LevelWalk(levels, hands_played, i + 1, total + levels[i].hands_per_level)

\* 0-based level index for a hand counter
current_level_index(levels, h) == LevelWalk(levels, h, 1, 0)

current_blinds(levels, h) ==
    LET lvl == levels[current_level_index(levels, h) + 1]
    IN  <<lvl.small_blind, lvl.big_blind>>

----------------------------------------------------------------------------
(* Cards and deck: card.py, deck.py.  A card is its index in the list      *)
(* [Card(r, s) for s in SUITS for r in RANKS].                             *)

Cards == 0 .. (DeckSize - 1)
RankVal(c) == (c % NumRanks) + 2
SuitOf(c) == c \div NumRanks

\* the unshuffled list built by reset()
FreshDeck == [i \in 1 .. DeckSize |-> i - 1]

\* one outcome of shuffle(): a permutation of the fresh deck
ShuffleOrder(k) == [i \in 1 .. DeckSize |-> FreshDeck[((7 * (i - 1) + 11 * k) % DeckSize) + 1]]

\* Deck.shuffle() on the cards that are left: the cards d in another order
shuffle(d, k) ==
    LET n == Len(d)
        step == IF n % 7 # 0 THEN 7 ELSE IF n % 5 # 0 THEN 5 ELSE 3
    IN  [i \in 1 .. n |-> d[((step * (i - 1) + 11 * k) % n) + 1]]

remaining(d) == Len(d)

----------------------------------------------------------------------------
(* Hand evaluator: hand_evaluator.py.  A score is <<HandRank, tie_break>>.  *)

HIGH_CARD == 1
ONE_PAIR == 2
TWO_PAIR == 3
THREE_OF_A_KIND == 4
STRAIGHT == 5
FLUSH == 6
FULL_HOUSE == 7
FOUR_OF_A_KIND == 8
STRAIGHT_FLUSH == 9

\* sorted(S, reverse=True) for a set of integers
RECURSIVE SortedDesc(_)
SortedDesc(S) ==
    IF S = {} THEN <<>>
    ELSE LET m == SetMax(S, 0) IN <<m>> \o SortedDesc(S \ {m})

\* Python's tuple comparison a > b on integer tuples
RECURSIVE TupleGreater(_, _)
TupleGreater(a, b) ==
    IF Len(a) = 0 THEN FALSE
    ELSE IF Len(b) = 0 THEN TRUE
    ELSE IF Head(a) # Head(b) THEN Head(a) > Head(b)
    ELSE TupleGreater(Tail(a), Tail(b))

\* (hand_score[0], hand_score[1]) > (best[0], best[1])
ScoreGreater(x, y) == IF x[1] # y[1] THEN x[1] > y[1] ELSE TupleGreater(x[2], y[2])

\* a window of five distinct descending values spanning exactly four
RECURSIVE straight_scan(_, _)
straight_scan(vals_desc, i) ==
    IF i > Len(vals_desc) - 4 THEN <<FALSE, 0>>
    ELSE IF vals_desc[i] - vals_desc[i + 4] = 4
            /\ Cardinality({vals_desc[j] : j \in i .. (i + 4)}) = 5
    THEN <<TRUE, vals_desc[i]>>
    ELSE straight_scan(vals_desc, i + 1)

\* a faulty variant: the wheel reports the Ace as its high card
is_straight_ace_high(vals_desc) ==
    IF Len(vals_desc) < 5 THEN <<FALSE, 0>>
    ELSE LET normal == straight_scan(vals_desc, 1)
         IN  IF normal[1] THEN normal
             ELSE IF {14, 5, 4, 3, 2} \subseteq SeqToSet(vals_desc) THEN <<TRUE, 14>>
             ELSE <<FALSE, 0>>

is_straight(vals_desc) ==
    IF Len(vals_desc) < 5 THEN <<FALSE, 0>>
    ELSE LET normal == straight_scan(vals_desc, 1)
         IN  IF normal[1] THEN normal
             ELSE IF {14, 5, 4, 3, 2} \subseteq SeqToSet(vals_desc) THEN <<TRUE, 5>>
             ELSE <<FALSE, 0>>

\* the first n entries of a tuple: seq[:n]
Take(q, n) == SubSeq(q, 1, Min(n, Len(q)))

\* a faulty variant: the Straight Flush test is missing, so a one-suit straight
\* falls through to the Flush test
score_5_flush_first(cards) ==
    LET \* vals: the rank values, high to low, repeated as dealt
        keyed == SortedDesc({RankVal(c) * 100 + c : c \in cards})
        vals == [i \in 1 .. Len(keyed) |-> keyed[i] \div 100]
        is_flush == Cardinality({SuitOf(c) : c \in cards}) = 1
        uniq_vals == SortedDesc({RankVal(c) : c \in cards})
        st == is_straight(uniq_vals)
        count(v) == Cardinality({c \in cards : RankVal(c) = v})
        \* groups: (count, value) sorted by count desc then value desc
        gkeys == SortedDesc({count(v) * 100 + v : v \in SeqToSet(uniq_vals)})
        groups == [i \in 1 .. Len(gkeys) |-> <<gkeys[i] \div 100, gkeys[i] % 100>>]
        without(excluded) == SelectSeq(vals, LAMBDA v : v \notin excluded)
    IN  IF groups[1][1] = 4
        THEN <<FOUR_OF_A_KIND, <<groups[1][2], without({groups[1][2]})[1]>> >>
        ELSE IF groups[1][1] = 3 /\ Len(groups) > 1 /\ groups[2][1] >= 2
        THEN <<FULL_HOUSE, <<groups[1][2], groups[2][2]>> >>
        ELSE IF is_flush THEN <<FLUSH, vals>>
        ELSE IF st[1] THEN <<STRAIGHT, <<st[2]>> >>
        ELSE IF groups[1][1] = 3
        THEN <<THREE_OF_A_KIND, <<groups[1][2]>> \o Take(without({groups[1][2]}), 2)>>
        ELSE IF groups[1][1] = 2 /\ Len(groups) > 1 /\ groups[2][1] = 2
        THEN LET pair_hi == Max(groups[1][2], groups[2][2])
                 pair_lo == Min(groups[1][2], groups[2][2])
             IN  <<TWO_PAIR, <<pair_hi, pair_lo, without({pair_hi, pair_lo})[1]>> >>
        ELSE IF groups[1][1] = 2
        THEN <<ONE_PAIR, <<groups[1][2]>> \o Take(without({groups[1][2]}), 3)>>
        ELSE <<HIGH_CARD, vals>>

\* cards: a set of five cards
score_5(cards) ==
    LET \* vals: the rank values, high to low, repeated as dealt
        keyed == SortedDesc({RankVal(c) * 100 + c : c \in cards})
        vals == [i \in 1 .. Len(keyed) |-> keyed[i] \div 100]
        is_flush == Cardinality({SuitOf(c) : c \in cards}) = 1
        uniq_vals == SortedDesc({RankVal(c) : c \in cards})
        st == is_straight(uniq_vals)
        count(v) == Cardinality({c \in cards : RankVal(c) = v})
        \* groups: (count, value) sorted by count desc then value desc
        gkeys == SortedDesc({count(v) * 100 + v : v \in SeqToSet(uniq_vals)})
        groups == [i \in 1 .. Len(gkeys) |-> <<gkeys[i] \div 100, gkeys[i] % 100>>]
        without(excluded) == SelectSeq(vals, LAMBDA v : v \notin excluded)
    IN  IF is_flush /\ st[1] THEN <<STRAIGHT_FLUSH, <<st[2]>> >>
        ELSE IF groups[1][1] = 4
        THEN <<FOUR_OF_A_KIND, <<groups[1][2], without({groups[1][2]})[1]>> >>
        ELSE IF groups[1][1] = 3 /\ Len(groups) > 1 /\ groups[2][1] >= 2
        THEN <<FULL_HOUSE, <<groups[1][2], groups[2][2]>> >>
        ELSE IF is_flush THEN <<FLUSH, vals>>
        ELSE IF st[1] THEN <<STRAIGHT, <<st[2]>> >>
        ELSE IF groups[1][1] = 3
        THEN <<THREE_OF_A_KIND, <<groups[1][2]>> \o Take(without({groups[1][2]}), 2)>>
        ELSE IF groups[1][1] = 2 /\ Len(groups) > 1 /\ groups[2][1] = 2
        THEN LET pair_hi == Max(groups[1][2], groups[2][2])
                 pair_lo == Min(groups[1][2], groups[2][2])
             IN  <<TWO_PAIR, <<pair_hi, pair_lo, without({pair_hi, pair_lo})[1]>> >>
        ELSE IF groups[1][1] = 2
        THEN <<ONE_PAIR, <<groups[1][2]>> \o Take(without({groups[1][2]}), 3)>>
        ELSE <<HIGH_CARD, vals>>

\* itertools.combinations(range(n), 5) in its order, as index tuples (1-based)
combinations5(n) ==
    LET all == {q \in [1 .. 5 -> 1 .. n] : \A i \in 1 .. 4 : q[i] < q[i + 1]}
        key(q) == (((q[1] * 100 + q[2]) * 100 + q[3]) * 100 + q[4]) * 100 + q[5]
        RECURSIVE ordered(_)
        ordered(S) ==
            IF S = {} THEN <<>>
            ELSE LET m == CHOOSE q \in S : \A r \in S : key(q) <= key(r)
                 IN  <<m>> \o ordered(S \ {m})
    IN  ordered(all)

\* a faulty combination list: the seventh card is never part of a subset
Combos7_first_six == combinations5(6)

Combos7 == combinations5(7)

\* a faulty loop: a subset replaces the best only when its category is higher
RECURSIVE best_scan_category_only(_, _, _)
best_scan_category_only(cards, i, best) ==
    IF i > Len(Combos7) THEN best
    ELSE LET sc == score_5({cards[Combos7[i][j]] : j \in 1 .. 5})
         IN  best_scan_category_only(cards, i + 1, IF sc[1] > best[1] THEN sc ELSE best)

\* the loop of best_of_7 from combination i on, `best` being the best so far
RECURSIVE best_scan(_, _, _)
best_scan(cards, i, best) ==
    IF i > Len(Combos7) THEN best
    ELSE LET scored == score_5({cards[Combos7[i][j]] : j \in 1 .. 5})
         IN  best_scan(cards, i + 1, IF ScoreGreater(scored, best) THEN scored ELSE best)

\* cards7: a tuple of seven cards
best_of_7(cards7) ==
    best_scan(cards7, 2, score_5({cards7[Combos7[1][j]] : j \in 1 .. 5}))

----------------------------------------------------------------------------
(* The table as one record, so that a handler's sequential code is a       *)
(* composition of record updates: table.py                                 *)

Table ==
    [chips |-> chips, hand |-> hand, folded |-> folded, community |-> community,
     deck |-> deck, hand_number |-> hand_number, hand_index |-> hand_index,
     big_blind_index |-> big_blind_index, street |-> street, pot |-> pot,
     current_bets |-> current_bets, current_bet_amount |-> current_bet_amount,
     hand_active |-> hand_active, to_act_index |-> to_act_index,
     pending_to_act |-> pending_to_act, ai_timer |-> ai_timer,
     sb_amount |-> sb_amount, bb_amount |-> bb_amount,
     last_action_text |-> last_action_text, raised |-> raised,
     street_log |-> street_log]

Install(t) ==
    /\ chips' = t.chips
    /\ hand' = t.hand
    /\ folded' = t.folded
    /\ community' = t.community
    /\ deck' = t.deck
    /\ hand_number' = t.hand_number
    /\ hand_index' = t.hand_index
    /\ big_blind_index' = t.big_blind_index
    /\ street' = t.street
    /\ pot' = t.pot
    /\ current_bets' = t.current_bets
    /\ current_bet_amount' = t.current_bet_amount
    /\ hand_active' = t.hand_active
    /\ to_act_index' = t.to_act_index
    /\ pending_to_act' = t.pending_to_act
    /\ ai_timer' = t.ai_timer
    /\ sb_amount' = t.sb_amount
    /\ bb_amount' = t.bb_amount
    /\ last_action_text' = t.last_action_text
    /\ raised' = t.raised
    /\ street_log' = t.street_log

\* last_action_text: the f-string's kind and the values formatted into it
Text(kind, seat, a, b) == [kind |-> kind, seat |-> seat, a |-> a, b |-> b]
NoText == Text("", None, 0, 0)

\* ---------- Position helpers ----------

small_blind_index(t) == (t.big_blind_index - 1) % NumPlayers
dealer_index(t) == (small_blind_index(t) - 1) % NumPlayers
next_seat(seat_index) == (seat_index + 1) % NumPlayers

\* ---------- Dealing / blinds ----------

\* a faulty draw: the last card is returned but stays in the deck
draw_peeks(t) ==
    IF t.raised # "none" THEN [t |-> t, card |-> None]
    ELSE IF Len(t.deck) = 0 THEN [t |-> [t EXCEPT !.raised = "RuntimeError"], card |-> None]
    ELSE [t |-> t, card |-> t.deck[Len(t.deck)]]

\* Deck.draw(): pops the last card; an empty deck raises RuntimeError
draw(t) ==
    IF t.raised # "none" THEN [t |-> t, card |-> None]
    ELSE IF Len(t.deck) = 0 THEN [t |-> [t EXCEPT !.raised = "RuntimeError"], card |-> None]
    ELSE [t |-> [t EXCEPT !.deck = SubSeq(t.deck, 1, Len(t.deck) - 1)],
          card |-> t.deck[Len(t.deck)]]

\* the k-th append of _deal_hole_cards, k = 0 .. hole_cards * seats - 1
RECURSIVE deal_hole_cards(_, _, _)
deal_hole_cards(t, start_index, k) ==
    IF k >= HoleCards * NumPlayers \/ t.raised # "none" THEN t
    ELSE LET idx == (start_index + k) % NumPlayers
             d == draw(t)
         IN  IF d.t.raised # "none" THEN d.t
             ELSE deal_hole_cards([d.t EXCEPT !.hand[idx] = Append(@, d.card)],
                                  start_index, k + 1)

\* a faulty _burn: no card is taken off the deck
burn_skips(t) == t

burn(t) == IF remaining(t.deck) > 0 THEN draw(t).t ELSE t

\* a faulty _deal_community: the card appended is not taken off the deck
RECURSIVE deal_community_copies(_, _)
deal_community_copies(t, count) ==
    IF count = 0 \/ t.raised # "none" THEN t
    ELSE LET d == draw(t)
         IN  IF d.t.raised # "none" THEN d.t
             ELSE deal_community_copies([t EXCEPT !.community = Append(@, d.card)], count - 1)

RECURSIVE deal_community(_, _)
deal_community(t, count) ==
    IF count = 0 \/ t.raised # "none" THEN t
    ELSE LET d == draw(t)
         IN  IF d.t.raised # "none" THEN d.t
             ELSE deal_community([d.t EXCEPT !.community = Append(@, d.card)], count - 1)

\* a faulty _take_chips: the amount asked for is taken whatever the seat holds
take_chips_unbounded(t, seat_index, amount) ==
    [t |-> [t EXCEPT !.chips[seat_index] = @ - amount], taken |-> amount]

take_chips(t, seat_index, amount) ==
    LET taken == Min(amount, t.chips[seat_index])
    IN  [t |-> [t EXCEPT !.chips[seat_index] = @ - taken], taken |-> taken]

post_blinds(t) ==
    LET bl == current_blinds(Levels, t.hand_index)
        sb_seat == small_blind_index(t)
        bb_seat == t.big_blind_index
        a == take_chips(t, sb_seat, bl[1])
        b == take_chips(a.t, bb_seat, bl[2])
        bets == Put(Put(b.t.current_bets, sb_seat, a.taken), bb_seat, b.taken)
    IN  [b.t EXCEPT !.sb_amount = bl[1],
                    !.bb_amount = bl[2],
                    !.current_bets = bets,
                    !.pot = @ + a.taken + b.taken,
                    !.current_bet_amount = SetMax(Values(bets), 0),
                    !.last_action_text = Text("Posted blinds", sb_seat, bl[1], bl[2])]

\* ---------- Betting / actions ----------

active_seats(t) == SelectSeq(SeatSeq, LAMBDA i : ~t.folded[i])
\* a faulty seats_can_act: folded seats with chips are listed too
seats_can_act_with_folded(t) == SelectSeq(SeatSeq, LAMBDA i : t.chips[i] > 0)

seats_can_act(t) == SelectSeq(active_seats(t), LAMBDA i : t.chips[i] > 0)

to_call(t, seat_index) == Max(0, t.current_bet_amount - Get(t.current_bets, seat_index))

human_can_act(t) ==
    t.hand_active /\ t.to_act_index = HumanSeat /\ ~t.folded[HumanSeat]
    /\ t.chips[HumanSeat] >= 0

\* a faulty award: the chips are paid out but the pot is not emptied
award_pot_keeps_pot(t, winner_seat) ==
    [t EXCEPT !.chips[winner_seat] = @ + t.pot,
              !.last_action_text = Text("wins pot", winner_seat, t.pot, 0),
              !.hand_active = FALSE,
              !.to_act_index = None,
              !.pending_to_act = {}]

\* a faulty award: the turn and the seats still to act are left as they were
award_pot_keeps_turn(t, winner_seat) ==
    [t EXCEPT !.chips[winner_seat] = @ + t.pot,
              !.last_action_text = Text("wins pot", winner_seat, t.pot, 0),
              !.pot = 0,
              !.hand_active = FALSE]

award_pot(t, winner_seat) ==
    [t EXCEPT !.chips[winner_seat] = @ + t.pot,
              !.last_action_text = Text("wins pot", winner_seat, t.pot, 0),
              !.pot = 0,
              !.hand_active = FALSE,
              !.to_act_index = None,
              !.pending_to_act = {}]

\* a faulty showdown: the pot is shared out among the unfolded seats
showdown_placeholder_splits(t) ==
    LET alive == active_seats(t)
        share == t.pot \div Len(alive)
        winner_seat == alive[1]
    IN  [award_pot(t, winner_seat) EXCEPT
            !.chips = [s \in Seats |->
                          IF s = winner_seat THEN t.chips[s] + t.pot - share * (Len(alive) - 1)
                          ELSE IF ~t.folded[s] THEN t.chips[s] + share
                          ELSE t.chips[s]]]

showdown_placeholder(t) ==
    LET alive == active_seats(t)
        winner_seat == IF Len(alive) > 0 THEN alive[1] ELSE 0
    IN  award_pot(t, winner_seat)

RECURSIVE advance_turn(_, _)
RECURSIVE on_betting_round_complete(_)
RECURSIVE begin_betting_round(_)

\* a faulty round start: the pre-flop round also starts left of the dealer
begin_betting_round_from_dealer(t) ==
    LET first == (dealer_index(t) + 1) % NumPlayers
        t1 == [t EXCEPT !.pending_to_act = SeqToSet(seats_can_act(t)),
                        !.to_act_index = first,
                        !.ai_timer = 0]
    IN  IF t1.to_act_index \notin t1.pending_to_act
        THEN advance_turn(t1, (first - 1) % NumPlayers)
        ELSE t1

\* a faulty round start: every round starts left of the big blind
begin_betting_round_always_utg(t) ==
    LET first == (t.big_blind_index + 1) % NumPlayers
        t1 == [t EXCEPT !.pending_to_act = SeqToSet(seats_can_act(t)),
                        !.to_act_index = first,
                        !.ai_timer = 0]
    IN  IF t1.to_act_index \notin t1.pending_to_act
        THEN advance_turn(t1, (first - 1) % NumPlayers)
        ELSE t1

begin_betting_round(t) ==
    LET first == IF t.street = PRE_FLOP
                 THEN (t.big_blind_index + 1) % NumPlayers
                 ELSE (dealer_index(t) + 1) % NumPlayers
        t1 == [t EXCEPT !.pending_to_act = SeqToSet(seats_can_act(t)),
                        !.to_act_index = first,
                        !.ai_timer = 0]
    IN  IF t1.to_act_index \notin t1.pending_to_act
        THEN advance_turn(t1, (first - 1) % NumPlayers)
        ELSE t1

\* a faulty _advance_turn: the seats are walked anticlockwise, so the last able seat
\* clockwise from the actor is asked
advance_turn_anticlockwise(t, from_seat) ==
    IF t.pending_to_act = {} THEN on_betting_round_complete(t)
    ELSE LET steps == {k \in 1 .. NumPlayers :
                         LET idx == (from_seat + k) % NumPlayers
                         IN  idx \in t.pending_to_act /\ ~t.folded[idx] /\ t.chips[idx] > 0}
         IN  IF steps # {}
             THEN [t EXCEPT !.to_act_index = (from_seat + SetMax(steps, 0)) % NumPlayers,
                            !.ai_timer = 0]
             ELSE on_betting_round_complete([t EXCEPT !.pending_to_act = {}])

\* a faulty _advance_turn: the round is closed while one seat is still to act
advance_turn_closes_early(t, from_seat) ==
    IF Cardinality(t.pending_to_act) <= 1
    THEN on_betting_round_complete([t EXCEPT !.pending_to_act = {}])
    ELSE LET steps == {k \in 1 .. NumPlayers :
                         LET idx == (from_seat + k) % NumPlayers
                         IN  idx \in t.pending_to_act /\ ~t.folded[idx] /\ t.chips[idx] > 0}
         IN  IF steps # {}
             THEN [t EXCEPT !.to_act_index = (from_seat + SetMin(steps)) % NumPlayers,
                            !.ai_timer = 0]
             ELSE on_betting_round_complete([t EXCEPT !.pending_to_act = {}])

advance_turn(t, from_seat) ==
    IF t.pending_to_act = {} THEN on_betting_round_complete(t)
    ELSE LET steps == {k \in 1 .. NumPlayers :
                         LET idx == (from_seat + k) % NumPlayers
                         IN  idx \in t.pending_to_act /\ ~t.folded[idx] /\ t.chips[idx] > 0}
         IN  IF steps # {}
             THEN [t EXCEPT !.to_act_index = (from_seat + SetMin(steps)) % NumPlayers,
                            !.ai_timer = 0]
             ELSE on_betting_round_complete([t EXCEPT !.pending_to_act = {}])

\* a faulty street chain: the turn is followed by the showdown
street_after_skips_river(s) ==
    IF s = PRE_FLOP THEN FLOP
    ELSE IF s = FLOP THEN TURN
    ELSE IF s = TURN THEN SHOWDOWN
    ELSE IF s = RIVER THEN SHOWDOWN
    ELSE s

\* the street a completed betting round moves to (the if / elif chain)
street_after(s) ==
    IF s = PRE_FLOP THEN FLOP
    ELSE IF s = FLOP THEN TURN
    ELSE IF s = TURN THEN RIVER
    ELSE IF s = RIVER THEN SHOWDOWN
    ELSE s

\* community cards dealt on entering a street
cards_for(s) ==
    IF s = FLOP THEN FlopCards
    ELSE IF s = TURN THEN TurnCards
    ELSE IF s = RIVER THEN RiverCards
    ELSE 0

on_betting_round_complete(t) ==
    LET alive == active_seats(t)
    IN  IF Len(alive) = 1 THEN award_pot(t, alive[1])
        ELSE IF t.street \in {PRE_FLOP, FLOP, TURN}
        THEN LET t1 == [t EXCEPT !.street = street_after(t.street),
                                 !.street_log = Append(@, street_after(t.street))]
                 t2 == deal_community(burn(t1), cards_for(t1.street))
             IN  IF t2.raised # "none" THEN t2
                 ELSE begin_betting_round([t2 EXCEPT !.current_bets = EmptyDict,
                                                     !.current_bet_amount = 0])
        ELSE IF t.street = RIVER
        THEN showdown_placeholder([t EXCEPT !.street = street_after(t.street),
                                            !.street_log = Append(@, street_after(t.street))])
        ELSE t

\* a faulty bet_to: the chips paid are recorded as the seat's bet but not added to the pot
bet_to_skips_pot(t, seat_index, prev_bet, target_total) ==
    LET target == Max(target_total, prev_bet)
        delta == target - prev_bet
    IN  IF delta <= 0 THEN [t |-> t, paid |-> 0]
        ELSE LET a == take_chips(t, seat_index, delta)
                 bets == Put(a.t.current_bets, seat_index, prev_bet + a.taken)
             IN  [t |-> [a.t EXCEPT !.current_bets = bets,
                                    !.current_bet_amount = SetMax(Values(bets), 0)],
                  paid |-> a.taken]

\* a faulty bet_to: the table bet level becomes the actor's own street bet
bet_to_level_is_own_bet(t, seat_index, prev_bet, target_total) ==
    LET target == Max(target_total, prev_bet)
        delta == target - prev_bet
    IN  IF delta <= 0 THEN [t |-> t, paid |-> 0]
        ELSE LET a == take_chips(t, seat_index, delta)
                 bets == Put(a.t.current_bets, seat_index, prev_bet + a.taken)
             IN  [t |-> [a.t EXCEPT !.pot = @ + a.taken,
                                    !.current_bets = bets,
                                    !.current_bet_amount = prev_bet + a.taken],
                  paid |-> a.taken]

\* Helper bet_to: put chips in so that the seat's street bet becomes target_total
bet_to(t, seat_index, prev_bet, target_total) ==
    LET target == Max(target_total, prev_bet)
        delta == target - prev_bet
    IN  IF delta <= 0 THEN [t |-> t, paid |-> 0]
        ELSE LET a == take_chips(t, seat_index, delta)
                 bets == Put(a.t.current_bets, seat_index, prev_bet + a.taken)
             IN  [t |-> [a.t EXCEPT !.pot = @ + a.taken,
                                    !.current_bets = bets,
                                    !.current_bet_amount = SetMax(Values(bets), 0)],
                  paid |-> a.taken]

\* a faulty FOLD branch: the fold that leaves one seat goes on to the next turn
apply_fold_no_award(t, seat_index) ==
    advance_turn([t EXCEPT !.folded[seat_index] = TRUE,
                           !.last_action_text = Text("folds", seat_index, 0, 0),
                           !.pending_to_act = @ \ {seat_index}],
                 seat_index)

\* the FOLD branch
apply_fold(t, seat_index) ==
    LET t1 == [t EXCEPT !.folded[seat_index] = TRUE,
                        !.last_action_text = Text("folds", seat_index, 0, 0),
                        !.pending_to_act = @ \ {seat_index}]
        alive == active_seats(t1)
    IN  IF Len(alive) = 1 THEN award_pot(t1, alive[1])
        ELSE advance_turn(t1, seat_index)

\* a faulty CHECK / CALL branch: the seat stays among those still to act
apply_check_call_stays_pending(t, seat_index) ==
    LET call_amt == to_call(t, seat_index)
        prev_bet == Get(t.current_bets, seat_index)
        b == IF call_amt > 0 THEN bet_to(t, seat_index, prev_bet, prev_bet + call_amt)
             ELSE [t |-> t, paid |-> 0]
        t1 == [b.t EXCEPT !.last_action_text =
                              IF call_amt > 0 THEN Text("calls", seat_index, b.paid, 0)
                              ELSE Text("checks", seat_index, 0, 0)]
    IN  advance_turn(t1, seat_index)

\* a faulty CHECK / CALL branch: the call cost is passed to bet_to as the target total
apply_check_call_cost_as_total(t, seat_index) ==
    LET call_amt == to_call(t, seat_index)
        prev_bet == Get(t.current_bets, seat_index)
        b == IF call_amt > 0 THEN bet_to(t, seat_index, prev_bet, call_amt)
             ELSE [t |-> t, paid |-> 0]
        t1 == [b.t EXCEPT !.last_action_text =
                              IF call_amt > 0 THEN Text("calls", seat_index, b.paid, 0)
                              ELSE Text("checks", seat_index, 0, 0),
                          !.pending_to_act = @ \ {seat_index}]
    IN  advance_turn(t1, seat_index)

\* the CHECK / CALL branch
apply_check_call(t, seat_index) ==
    LET call_amt == to_call(t, seat_index)
        prev_bet == Get(t.current_bets, seat_index)
        b == IF call_amt > 0 THEN bet_to(t, seat_index, prev_bet, prev_bet + call_amt)
             ELSE [t |-> t, paid |-> 0]
        t1 == [b.t EXCEPT !.last_action_text =
                              IF call_amt > 0 THEN Text("calls", seat_index, b.paid, 0)
                              ELSE Text("checks", seat_index, 0, 0),
                          !.pending_to_act = @ \ {seat_index}]
    IN  advance_turn(t1, seat_index)

\* a faulty min-raise rule: one chip over the current bet
min_raise_to_plus_one(t) == t.current_bet_amount + 1

\* the minimal min-raise rule: at least +BB
min_raise_to(t) == t.current_bet_amount + Max(1, t.bb_amount)

\* the total a BET / RAISE request is clamped to
raise_target(t, seat_index, raise_to_total) ==
    LET prev_bet == Get(t.current_bets, seat_index)
        wanted == IF raise_to_total # None THEN raise_to_total ELSE min_raise_to(t)
        floored == Max(wanted, min_raise_to(t))
        max_total == prev_bet + t.chips[seat_index]
    IN  Min(floored, max_total)

\* a faulty BET / RAISE branch: a raise only takes the actor out of pending_to_act
apply_bet_raise_keeps_pending(t, seat_index, action, raise_to_total) ==
    LET call_amt == to_call(t, seat_index)
        prev_bet == Get(t.current_bets, seat_index)
        b == bet_to(t, seat_index, prev_bet, raise_target(t, seat_index, raise_to_total))
        new_total == Get(b.t.current_bets, seat_index)
        t1 == [b.t EXCEPT !.last_action_text =
                              IF action = BET THEN Text("bets", seat_index, b.paid, 0)
                              ELSE Text("raises to", seat_index, new_total, b.paid)]
    IN  advance_turn([t1 EXCEPT !.pending_to_act = @ \ {seat_index}], seat_index)

\* a faulty BET / RAISE branch: every Bet or Raise reopens the betting
apply_bet_raise_always_reopens(t, seat_index, action, raise_to_total) ==
    LET call_amt == to_call(t, seat_index)
        prev_bet == Get(t.current_bets, seat_index)
        b == bet_to(t, seat_index, prev_bet, raise_target(t, seat_index, raise_to_total))
        new_total == Get(b.t.current_bets, seat_index)
        t1 == [b.t EXCEPT !.last_action_text =
                              IF action = BET THEN Text("bets", seat_index, b.paid, 0)
                              ELSE Text("raises to", seat_index, new_total, b.paid)]
    IN  advance_turn([t1 EXCEPT !.pending_to_act =
                                   SeqToSet(seats_can_act(t1)) \ {seat_index}],
                     seat_index)

\* a faulty BET / RAISE branch: a raise reopens the round only for the seats that
\* have nothing in on this street
apply_bet_raise_reopens_unbet_only(t, seat_index, action, raise_to_total) ==
    LET call_amt == to_call(t, seat_index)
        prev_bet == Get(t.current_bets, seat_index)
        b == bet_to(t, seat_index, prev_bet, raise_target(t, seat_index, raise_to_total))
        new_total == Get(b.t.current_bets, seat_index)
        t1 == [b.t EXCEPT !.last_action_text =
                              IF action = BET THEN Text("bets", seat_index, b.paid, 0)
                              ELSE Text("raises to", seat_index, new_total, b.paid)]
    IN  IF Get(t1.current_bets, seat_index) <= t1.current_bet_amount /\ b.paid <= call_amt
        THEN advance_turn([t1 EXCEPT !.pending_to_act = @ \ {seat_index}], seat_index)
        ELSE advance_turn([t1 EXCEPT !.pending_to_act =
                                        {s \in SeqToSet(seats_can_act(t1)) :
                                            Get(t1.current_bets, s) = 0} \ {seat_index}],
                          seat_index)

\* the BET / RAISE branch
apply_bet_raise(t, seat_index, action, raise_to_total) ==
    LET call_amt == to_call(t, seat_index)
        prev_bet == Get(t.current_bets, seat_index)
        b == bet_to(t, seat_index, prev_bet, raise_target(t, seat_index, raise_to_total))
        new_total == Get(b.t.current_bets, seat_index)
        t1 == [b.t EXCEPT !.last_action_text =
                              IF action = BET THEN Text("bets", seat_index, b.paid, 0)
                              ELSE Text("raises to", seat_index, new_total, b.paid)]
    IN  IF Get(t1.current_bets, seat_index) <= t1.current_bet_amount /\ b.paid <= call_amt
        THEN advance_turn([t1 EXCEPT !.pending_to_act = @ \ {seat_index}], seat_index)
        ELSE advance_turn([t1 EXCEPT !.pending_to_act =
                                        SeqToSet(seats_can_act(t1)) \ {seat_index}],
                          seat_index)

\* faulty early returns: the turn is not checked
ignored_any_seat(t, seat_index) ==
    \/ ~t.hand_active
    \/ t.folded[seat_index]

\* the three early returns of apply_action
ignored(t, seat_index) ==
    \/ ~t.hand_active
    \/ t.to_act_index # seat_index
    \/ t.folded[seat_index]

apply_action(t, seat_index, action, raise_to_total) ==
    IF ignored(t, seat_index) THEN t
    ELSE IF action = FOLD THEN apply_fold(t, seat_index)
    ELSE IF action \in {CHECK, CALL} THEN apply_check_call(t, seat_index)
    ELSE IF action \in {BET, RAISE} THEN apply_bet_raise(t, seat_index, action, raise_to_total)
    ELSE t

human_action(t, action, raise_to_total) == apply_action(t, HumanSeat, action, raise_to_total)

\* ---------- Game lifecycle ----------

reset_hand_state(t, shuffled) ==
    [t EXCEPT !.deck = shuffled,
              !.community = <<>>,
              !.street = PRE_FLOP,
              !.street_log = <<PRE_FLOP>>,
              !.pot = 0,
              !.current_bets = EmptyDict,
              !.current_bet_amount = 0,
              !.hand_active = FALSE,
              !.to_act_index = None,
              !.pending_to_act = {},
              !.ai_timer = 0,
              !.last_action_text = NoText]

\* Player.reset_for_hand() of the player at one seat
reset_seat_for_hand(t, s) ==
    [t EXCEPT !.hand[s] = <<>>,
              !.folded[s] = FALSE]

\* Player.reset_for_hand() for every seat
reset_for_hand(t) ==
    [t EXCEPT !.hand = [s \in Seats |-> <<>>],
              !.folded = [s \in Seats |-> FALSE]]

\* a faulty variant: the chip stacks are not reset
start_new_game_keeps_chips(t, shuffled) ==
    LET t1 == reset_hand_state([t EXCEPT !.hand_number = 0,
                                         !.big_blind_index = 0,
                                         !.hand_index = 0], shuffled)
    IN  reset_for_hand(t1)

start_new_game(t, shuffled) ==
    LET t1 == reset_hand_state([t EXCEPT !.hand_number = 0,
                                         !.big_blind_index = 0,
                                         !.hand_index = 0], shuffled)
    IN  reset_for_hand([t1 EXCEPT !.chips = [s \in Seats |-> StartingChips]])

\* a faulty variant: the big blind also moves before the first hand of a game
start_new_hand_rotates_first(t, shuffled) ==
    LET t1 == reset_hand_state([t EXCEPT !.hand_number = @ + 1,
                                         !.hand_index = @ + 1], shuffled)
        t2 == reset_for_hand(t1)
        t3 == [t2 EXCEPT !.big_blind_index = (@ + 1) % NumPlayers]
        t4 == post_blinds(t3)
        t5 == deal_hole_cards(t4, (dealer_index(t4) + 1) % NumPlayers, 0)
    IN  IF t5.raised # "none" THEN t5
        ELSE begin_betting_round([t5 EXCEPT !.hand_active = TRUE])

start_new_hand(t, shuffled) ==
    LET t1 == reset_hand_state([t EXCEPT !.hand_number = @ + 1,
                                         !.hand_index = @ + 1], shuffled)
        t2 == reset_for_hand(t1)
        t3 == IF t2.hand_number > 1
              THEN [t2 EXCEPT !.big_blind_index = (@ + 1) % NumPlayers]
              ELSE t2
        t4 == post_blinds(t3)
        t5 == deal_hole_cards(t4, (dealer_index(t4) + 1) % NumPlayers, 0)
    IN  IF t5.raised # "none" THEN t5
        ELSE begin_betting_round([t5 EXCEPT !.hand_active = TRUE])

----------------------------------------------------------------------------
(* CPU decision policy: cpu.py.  Every random draw is a free choice.       *)

\* keyword-only parameters of CPUPlayer.choose_action, none with a default
ChooseActionParams == {"to_call", "current_bet", "big_blind", "pot", "hole", "community"}
\* keywords PokerTable.update passes to it
UpdateCallKeywords == {"to_call", "current_bet", "big_blind"}
\* Python binds a call only when every required parameter is given and none is unknown
call_binds(params, keywords) == params \subseteq keywords /\ keywords \subseteq params

\* numerators w of the strength estimate w / iters
strength_wins(hole) == IF Len(hole) # 2 THEN {0} ELSE 0 .. Iters

\* fold_bias and raise_bias in hundredths
fold_bias(personality) ==
    IF personality = DEFENSIVE THEN 110 ELSE IF personality = AGGRESSIVE THEN 85 ELSE 100
raise_bias(personality) ==
    IF personality = DEFENSIVE THEN 55 ELSE IF personality = AGGRESSIVE THEN 135 ELSE 100

\* the states a seat's random.Random() can start in; every draw moves it on
RngSeeds == {0, 1, 2}
rng_next(rng) == rng + 7

\* a faulty pool: only the seat's hole cards are left out, the revealed board is not
estimate_remaining_keeps_board(hole, revealed) ==
    SelectSeq(FreshDeck, LAMBDA c : c \notin SeqToSet(hole))

\* the pack without the known cards, in the order the comprehension lists it
estimate_remaining(hole, revealed) ==
    SelectSeq(FreshDeck, LAMBDA c : c \notin SeqToSet(hole \o revealed))

\* how many cards complete the board
estimate_need(revealed) == Max(0, 5 - Len(revealed))

\* the positions rng.sample(population, k) draws in rng state `rng`: k different
\* places of a list of n, one stride apart from the place the state points at
sample_positions(n, k, rng) ==
    LET stride == IF rng % 2 = 0 THEN 1 ELSE 13
    IN  [i \in 1 .. k |-> ((rng + stride * (i - 1)) % n) + 1]

\* rng.sample(population, k)
rng_sample(population, k, rng) ==
    LET p == sample_positions(Len(population), k, rng)
    IN  [i \in 1 .. k |-> population[p[i]]]

\* one pass of the loop body for the cards drawn: <<opp, board, win>>
estimate_iteration(hole, revealed, drawn) ==
    LET opp == SubSeq(drawn, 1, 2)
        board == IF estimate_need(revealed) = 0 /\ Len(revealed) = 5 THEN revealed
                 ELSE revealed \o SubSeq(drawn, 3, Len(drawn))
        mine == best_of_7(hole \o board)
        theirs == best_of_7(opp \o board)
    IN  <<opp, board, IF ~ScoreGreater(theirs, mine) THEN 1 ELSE 0>>

\* 70 * 2^52 times the rounding error of the double 2 + (w / 70) * 4, w = 0 .. 70
bump_factor_error ==
    <<0, -64, 12, -52, 24, -40, 36, -28, 48, -16, -80, -4, 72, 8, -56, 20, -44, 32,
      -32, -96, -20, 56, -8, -72, 4, 80, 16, -48, 28, 104, 40, -24, -88, -12, 64, 0,
      -64, -128, -192, 24, -40, 176, 112, 48, -16, -80, -144, -208, 8, -56, 160, 96,
      32, -32, -96, -160, 56, -8, 208, 144, 80, 16, -48, -112, -176, 40, -24, 192,
      128, 64, 0>>

\* the exponent of the greatest power of two not above n
RECURSIVE floor_log2(_)
floor_log2(n) == IF n < 2 THEN 0 ELSE 1 + floor_log2(n \div 2)

\* a faulty raise sizing: the bump scales with the strength alone
bump_strength_only(big_blind, w) == (big_blind * 2 * w) \div Iters

\* int(big_blind * (2 + strength * 4)), strength = w / 70, as doubles compute it: the
\* exact quotient, one less where it is whole and the product rounds below it
bump(big_blind, w) ==
    LET num == big_blind * (2 * Iters + 4 * w)
        q == num \div Iters
        k == floor_log2(q)
        gap == IF q = Pow(2, k) THEN (Iters \div 2) * Pow(2, k) ELSE Iters * Pow(2, k)
    IN  IF num % Iters # 0 \/ q = 0 THEN q
        ELSE IF 2 * big_blind * (0 - bump_factor_error[w + 1]) > gap THEN q - 1
        ELSE q

\* strength < pot_odds * fold_bias * margin for strength = w / 70, cross-multiplied;
\* where the two sides are equal the rounding of the doubles decides either way
weak_outcomes(personality, own_chips, call_amt, big_blind, pot_now, w) ==
    LET margin == IF own_chips <= big_blind * 8 THEN 92 ELSE 98
        lhs == w * Max(1, pot_now + call_amt) * 100
        rhs == (Iters \div 10) * call_amt * ((fold_bias(personality) * margin) \div 10)
    IN  IF lhs = rhs THEN BOOLEAN ELSE {lhs < rhs}

\* a faulty opening branch: every personality may open for one big blind
open_outcomes_any_personality(personality, own_chips, big_blind) ==
    {<<CHECK, None>>}
    \cup (IF personality = AGGRESSIVE /\ own_chips > big_blind
          THEN {<<BET, Max(big_blind, big_blind * 2)>>} ELSE {})
    \cup (IF own_chips > big_blind
          THEN {<<BET, Max(big_blind, big_blind)>>} ELSE {})

\* no bet to the seat: check, or the occasional small bet
open_outcomes(personality, own_chips, big_blind) ==
    {<<CHECK, None>>}
    \cup (IF personality = AGGRESSIVE /\ own_chips > big_blind
          THEN {<<BET, Max(big_blind, big_blind * 2)>>} ELSE {})
    \cup (IF personality = NEUTRAL /\ own_chips > big_blind
          THEN {<<BET, Max(big_blind, big_blind)>>} ELSE {})

\* the outcomes (action, raise_to_total) choose_action can return
choose_action(personality, is_folded, own_chips, call_amt, current_bet, big_blind, pot_now, hole) ==
    IF is_folded \/ own_chips <= 0 THEN {<<CHECK, None>>}
    ELSE IF call_amt <= 0 THEN open_outcomes(personality, own_chips, big_blind)
    ELSE UNION {
           UNION {
             IF weak
             THEN {<<FOLD, None>>}
                  \cup (IF personality = AGGRESSIVE THEN {<<CALL, None>>} ELSE {})
             ELSE {<<CALL, None>>}
                  \cup (IF own_chips > call_amt + big_blind /\ 100 * w > 62 * Iters
                        THEN {<<RAISE, current_bet + Max(big_blind, bump(big_blind, w))>>}
                        ELSE {})
             : weak \in weak_outcomes(personality, own_chips, call_amt, big_blind,
                                      pot_now, w)}
           : w \in strength_wins(hole)}

\* ---------- Pygame loop integration ----------

\* a faulty update: the human seat is timed and acted for like a CPU seat
update_all_seats(t, dt, think) ==
    IF ~t.hand_active THEN {t}
    ELSE IF t.to_act_index = None THEN {t}
    ELSE LET seat == t.to_act_index
             sampled == IF t.ai_timer <= 0 THEN think ELSE t.ai_timer
             t1 == [t EXCEPT !.ai_timer = sampled - dt]
         IN  IF t1.ai_timer > 0 THEN {t1}
             ELSE IF ~call_binds(ChooseActionParams, UpdateCallKeywords)
             THEN {[t1 EXCEPT !.raised = "TypeError"]}
             ELSE {apply_action(t1, seat, o[1], o[2]) :
                     o \in choose_action(Personality(seat), t1.folded[seat], t1.chips[seat],
                                         to_call(t1, seat), t1.current_bet_amount,
                                         t1.bb_amount, t1.pot, t1.hand[seat])}

\* the tables update(dt) can leave, `think` being the sampled think time
update(t, dt, think) ==
    IF ~t.hand_active THEN {t}
    ELSE IF t.to_act_index = None THEN {t}
    ELSE IF t.to_act_index = HumanSeat THEN {t}
    ELSE IF t.to_act_index \notin CPUSeats THEN {t}
    ELSE LET seat == t.to_act_index
             sampled == IF t.ai_timer <= 0 THEN think ELSE t.ai_timer
             t1 == [t EXCEPT !.ai_timer = sampled - dt]
         IN  IF t1.ai_timer > 0 THEN {t1}
             ELSE IF ~call_binds(ChooseActionParams, UpdateCallKeywords)
             THEN {[t1 EXCEPT !.raised = "TypeError"]}
             ELSE {apply_action(t1, seat, o[1], o[2]) :
                     o \in choose_action(Personality(seat), t1.folded[seat], t1.chips[seat],
                                         to_call(t1, seat), t1.current_bet_amount,
                                         t1.bb_amount, t1.pot, t1.hand[seat])}

----------------------------------------------------------------------------
(* The state machine *)

TotalChips(c) == SumOver(c, Seats)

\* PokerTable() followed by nothing: the constructor's assignments
Init ==
    /\ chips = [s \in Seats |-> StartingChips]
    /\ hand = [s \in Seats |-> <<>>]
    /\ folded = [s \in Seats |-> FALSE]
    /\ community = <<>>
    /\ deck \in {ShuffleOrder(k) : k \in ShuffleSeeds}
    /\ hand_number = 0
    /\ hand_index = 0
    /\ big_blind_index = 0
    /\ street = PRE_FLOP
    /\ pot = 0
    /\ current_bets = EmptyDict
    /\ current_bet_amount = 0
    /\ hand_active = FALSE
    /\ to_act_index = None
    /\ pending_to_act = {}
    /\ ai_timer = 0
    /\ sb_amount = InitSmallBlind
    /\ bb_amount = InitBigBlind
    /\ last_action_text = NoText
    /\ raised = "none"
    /\ street_log = <<PRE_FLOP>>
    /\ hand_start_chips = NumPlayers * StartingChips
    /\ raises = 0
    /\ acted = FALSE
    /\ dealt_only = FALSE
    /\ draws = 0
    /\ hand_score = <<>>
    /\ cpu_call = <<>>

StartNewGame ==
    /\ raised = "none"
    /\ \E k \in ShuffleSeeds :
        /\ Install(start_new_game(Table, ShuffleOrder(k)))
        /\ hand_start_chips' = TotalChips(chips')
        /\ raises' = 0
        /\ acted' = FALSE
        /\ dealt_only' = FALSE
        /\ UNCHANGED <<draws, hand_score, cpu_call>>

\* a game is any number of re-dealt hands, one hand that is played to its end and
\* the deal of the hand after it
StartNewHand ==
    /\ raised = "none"
    /\ hand_number < MaxHands
    /\ ~acted \/ (~hand_active /\ ~dealt_only)
    /\ \E k \in ShuffleSeeds :
        /\ Install(start_new_hand(Table, ShuffleOrder(k)))
        /\ hand_start_chips' = TotalChips(chips)
        /\ raises' = 0
        /\ dealt_only' = acted
        /\ UNCHANGED <<acted, draws, hand_score, cpu_call>>

\* raise_to_total is only read by BET / RAISE
TotalsFor(action) == IF action \in {BET, RAISE} THEN RaiseTotals ELSE {None}

\* apply_action(seat, action, raise_to_total=...) for a call that gets past the early returns
Act(seat) ==
    \E action \in Actions :
        \E raise_to_total \in TotalsFor(action) :
            /\ ~dealt_only
            /\ action \in {BET, RAISE} => raises < MaxRaises
            /\ Install(apply_action(Table, seat, action, raise_to_total))
            /\ raises' = IF action \in {BET, RAISE} THEN raises + 1 ELSE raises
            /\ acted' = TRUE
            /\ UNCHANGED <<hand_start_chips, dealt_only, draws, hand_score, cpu_call>>

\* a call that hits an early return: action and raise_to_total are never read
Ignored(seat) ==
    /\ Install(apply_action(Table, seat, FOLD, None))
    /\ UNCHANGED <<hand_start_chips, raises, acted, dealt_only, draws, hand_score, cpu_call>>

ApplyAction ==
    /\ raised = "none"
    /\ \E seat \in Seats : IF ignored(Table, seat) THEN Ignored(seat) ELSE Act(seat)

HumanAction ==
    /\ raised = "none"
    /\ IF ignored(Table, HumanSeat) THEN Ignored(HumanSeat) ELSE Act(HumanSeat)

Update ==
    /\ raised = "none"
    /\ \E dt \in Dts, think \in ThinkTimes :
        \E t2 \in update(Table, dt, think) :
            /\ Install(t2)
            /\ UNCHANGED <<hand_start_chips, raises, acted, dealt_only, draws, hand_score, cpu_call>>

\* the engine driven through its lifecycle and action entry points
Next == StartNewGame \/ StartNewHand \/ ApplyAction \/ HumanAction

Spec == Init /\ [][Next]_vars

\* the engine driven by frame ticks as well
TickNext == Next \/ Update

TickSpec == Init /\ [][TickNext]_vars

\* the attributes PokerTable.__init__ sets on a table; no method adds another
TableAttributes ==
    {"rules", "blinds", "deck", "players", "community", "hand_number",
     "big_blind_index", "street", "pot", "current_bets", "current_bet_amount",
     "hand_active", "to_act_index", "pending_to_act", "_ai_timer", "sb_amount",
     "bb_amount", "last_action_text", "last_actions", "_rng"}

\* TableScreen.draw: (not table.hand_active) and bool(table.showdown_summary);
\* the attribute is read only when no hand is active, and reading an attribute the
\* table does not have raises AttributeError
screen_draw(t) ==
    IF t.hand_active THEN t
    ELSE IF "showdown_summary" \in TableAttributes THEN t
    ELSE [t EXCEPT !.raised = "AttributeError"]

\* the presentation layer draws a frame
Draw ==
    /\ raised = "none"
    /\ Install(screen_draw(Table))
    /\ UNCHANGED <<hand_start_chips, raises, acted, dealt_only, draws, hand_score, cpu_call>>

\* the engine with the table screen drawn between operations
DrawNext == Next \/ Draw

DrawSpec == Init /\ [][DrawNext]_vars

\* the hand dealt after the played one is pushed all-in: the first seat to act raises
\* to more than any seat holds, every seat after it calls
AllInPlay ==
    /\ raised = "none"
    /\ dealt_only
    /\ hand_active
    /\ Install(IF raises = 0
               THEN apply_action(Table, to_act_index, RAISE, NumPlayers * StartingChips)
               ELSE apply_action(Table, to_act_index, CALL, None))
    /\ raises' = 1
    /\ UNCHANGED <<hand_start_chips, acted, dealt_only, draws, hand_score, cpu_call>>

\* the engine with a second hand that is played all-in on unequal stacks
AllInNext == Next \/ AllInPlay

AllInSpec == Init /\ [][AllInNext]_vars

\* the hand dealt after the played one, where the seat to act may also fold
FoldPlay ==
    /\ raised = "none" /\ dealt_only /\ hand_active
    /\ Install(apply_action(Table, to_act_index, FOLD, None))
    /\ UNCHANGED <<hand_start_chips, raises, acted, dealt_only, draws, hand_score, cpu_call>>

BustNext == AllInNext \/ FoldPlay

BustSpec == Init /\ [][BustNext]_vars

\* a further Bet / Raise by the seat to act in the game's first hand, past MaxRaises:
\* the re-raises of one betting round and of the rounds after it
ReRaise ==
    /\ raised = "none"
    /\ hand_number = 1 /\ hand_active /\ ~dealt_only
    /\ ~ignored(Table, to_act_index)
    /\ raises >= MaxRaises /\ raises < MaxReRaises
    /\ \E action \in {BET, RAISE} :
        \E raise_to_total \in TotalsFor(action) :
            /\ Install(apply_action(Table, to_act_index, action, raise_to_total))
            /\ raises' = raises + 1
            /\ acted' = TRUE
            /\ UNCHANGED <<hand_start_chips, dealt_only, draws, hand_score, cpu_call>>

\* the engine with a first hand in which raises are answered by re-raises
ReRaiseNext == Next \/ ReRaise

ReRaiseSpec == Init /\ [][ReRaiseNext]_vars

\* every seat holds what the table's last deal gave it
AsDealt == \A s \in Seats : Len(hand[s]) = Len(hand[HumanSeat])

\* Player.reset_for_hand() called on one player of the table, outside the table's
\* own calls of it in start_new_game() and start_new_hand(); explored once per deal
ResetForHand ==
    /\ raised = "none"
    /\ AsDealt
    /\ \E s \in Seats :
        /\ Install(reset_seat_for_hand(Table, s))
        /\ UNCHANGED <<hand_start_chips, raises, acted, dealt_only, draws, hand_score, cpu_call>>

\* the engine with its players reset one at a time between operations
PlayerNext == Next \/ ResetForHand

PlayerSpec == Init /\ [][PlayerNext]_vars

----------------------------------------------------------------------------
(* The blind schedule on its own: BlindStructure driven through its methods *)

\* advance_hand() is taken while fewer than MaxAdvances hands were counted
MaxAdvances == 120

\* BlindStructure.advance_hand()
AdvanceHand ==
    /\ hand_index < MaxAdvances
    /\ hand_index' = hand_index + 1
    /\ UNCHANGED <<chips, hand, folded, community, deck, hand_number,
                   big_blind_index, street, pot, current_bets, current_bet_amount,
                   hand_active, to_act_index, pending_to_act, ai_timer, sb_amount,
                   bb_amount, last_action_text, raised, street_log, hand_start_chips,
                   raises, acted, dealt_only, draws, hand_score, cpu_call>>

\* BlindStructure.start_new_game()
BlindsStartNewGame ==
    /\ hand_index' = 0
    /\ UNCHANGED <<chips, hand, folded, community, deck, hand_number,
                   big_blind_index, street, pot, current_bets, current_bet_amount,
                   hand_active, to_act_index, pending_to_act, ai_timer, sb_amount,
                   bb_amount, last_action_text, raised, street_log, hand_start_chips,
                   raises, acted, dealt_only, draws, hand_score, cpu_call>>

BlindNext == AdvanceHand \/ BlindsStartNewGame

BlindSpec == Init /\ [][BlindNext]_vars

----------------------------------------------------------------------------
(* The schedule builder on its own: default_blind_structure called with the *)
(* blinds held in sb_amount / bb_amount                                     *)

\* the arguments tried: small_blind, big_blind - small_blind, levels
BuildSmallBlinds == 1 .. 12
BuildBlindGaps == 1 .. 10
BuildLevelCounts == {1, 2, 3}

\* the caller picks small_blind and big_blind, big_blind > small_blind > 0
PickBlinds ==
    /\ raised = "none"
    /\ hand_number = 0
    /\ \E sb \in BuildSmallBlinds, gap \in BuildBlindGaps :
          /\ sb_amount' = sb
          /\ bb_amount' = sb + gap
    /\ UNCHANGED <<chips, hand, folded, community, deck, hand_number, hand_index,
                   big_blind_index, street, pot, current_bets, current_bet_amount,
                   hand_active, to_act_index, pending_to_act, ai_timer,
                   last_action_text, raised, street_log, hand_start_chips,
                   raises, acted, dealt_only, draws, hand_score, cpu_call>>

\* default_blind_structure(small_blind, big_blind, hands_per_level, levels)
BuildSchedule ==
    /\ raised = "none"
    /\ hand_number = 0
    /\ \E n \in BuildLevelCounts :
          raised' = blind_structure_error(sb_amount, bb_amount, HandsPerLevel, n)
    /\ UNCHANGED <<chips, hand, folded, community, deck, hand_number, hand_index,
                   big_blind_index, street, pot, current_bets, current_bet_amount,
                   hand_active, to_act_index, pending_to_act, ai_timer, sb_amount,
                   bb_amount, last_action_text, street_log, hand_start_chips,
                   raises, acted, dealt_only, draws, hand_score, cpu_call>>

BuildNext == PickBlinds \/ BuildSchedule

BuildSpec == Init /\ [][BuildNext]_vars

----------------------------------------------------------------------------
(* The deck on its own: Deck driven through reset() and draw() *)

\* the outcomes of shuffle() explored for the deck on its own
DeckSeeds == {1, 2, 3}

\* Deck.reset()
DeckReset ==
    \E k \in DeckSeeds :
        /\ deck' = ShuffleOrder(k)
        /\ raised' = "none"
        /\ draws' = 0
        /\ UNCHANGED <<chips, hand, folded, community, hand_number, hand_index,
                       big_blind_index, street, pot, current_bets, current_bet_amount,
                       hand_active, to_act_index, pending_to_act, ai_timer, sb_amount,
                       bb_amount, last_action_text, street_log, hand_start_chips,
                       raises, acted, dealt_only, hand_score, cpu_call>>

\* Deck.draw(), a fresh call: raised is the exception that leaves it
DeckDraw ==
    LET d == draw([Table EXCEPT !.raised = "none"])
    IN  /\ deck' = d.t.deck
        /\ raised' = d.t.raised
        /\ draws' = IF d.t.raised = "none" THEN draws + 1 ELSE draws
        /\ UNCHANGED <<chips, hand, folded, community, hand_number, hand_index,
                       big_blind_index, street, pot, current_bets, current_bet_amount,
                       hand_active, to_act_index, pending_to_act, ai_timer, sb_amount,
                       bb_amount, last_action_text, street_log, hand_start_chips,
                       raises, acted, dealt_only, hand_score, cpu_call>>

\* the deck is as its last reset() left it, less the cards drawn since
AsReset == \E k \in DeckSeeds : deck = SubSeq(ShuffleOrder(k), 1, Len(deck))

\* Deck.shuffle() called on its own, on whatever cards are left; explored once per
\* reset()
DeckShuffle ==
    /\ AsReset
    /\ \E k \in DeckSeeds :
        /\ deck' = shuffle(deck, k)
        /\ raised' = "none"
        /\ UNCHANGED <<chips, hand, folded, community, hand_number, hand_index,
                       big_blind_index, street, pot, current_bets, current_bet_amount,
                       hand_active, to_act_index, pending_to_act, ai_timer, sb_amount,
                       bb_amount, last_action_text, street_log, hand_start_chips,
                       raises, acted, dealt_only, draws, hand_score, cpu_call>>

DeckNext == DeckReset \/ DeckDraw \/ DeckShuffle

DeckSpec == Init /\ [][DeckNext]_vars

----------------------------------------------------------------------------
(* The hand evaluator on its own: cards are laid out as hole cards and     *)
(* board, then _score_5 or best_of_7 is called on them                     *)

\* the card Card(RANKS[v - 2], SUITS[suit]) for a rank value v in 2 .. 14
CardOf(v, suit) == suit * NumRanks + (v - 2)

\* the cards hands are laid out from: 2 3 4 5 6 A of clubs and of diamonds, and
\* the 2 and the A of hearts and of spades
EvalCards ==
    {CardOf(v, suit) : v \in {2, 3, 4, 5, 6, 14}, suit \in {0, 1}}
        \cup {CardOf(v, suit) : v \in {2, 14}, suit \in {2, 3}}

\* a set of cards as a list, in deck order
RECURSIVE SetToSeq(_)
SetToSeq(S) ==
    IF S = {} THEN <<>>
    ELSE LET c == SetMin(S) IN <<c>> \o SetToSeq(S \ {c})

Hands(n) == {S \in SUBSET EvalCards : Cardinality(S) = n}

\* five cards are laid out on the board
LayFive ==
    /\ community = <<>> /\ hand_number = 0
    /\ \E S \in Hands(5) :
          /\ community' = SetToSeq(S)
          /\ UNCHANGED <<chips, hand, folded, deck, hand_number, hand_index,
                         big_blind_index, street, pot, current_bets, current_bet_amount,
                         hand_active, to_act_index, pending_to_act, ai_timer, sb_amount,
                         bb_amount, last_action_text, raised, street_log,
                         hand_start_chips, raises, acted, dealt_only, draws, hand_score, cpu_call>>

\* seven cards are laid out: two hole cards for seat 0 and a full board
LaySeven ==
    /\ community = <<>> /\ hand_number = 0
    /\ \E S \in Hands(7) :
          LET q == SetToSeq(S)
          IN  /\ hand' = [hand EXCEPT ![HumanSeat] = SubSeq(q, 1, 2)]
              /\ community' = SubSeq(q, 3, 7)
              /\ UNCHANGED <<chips, folded, deck, hand_number, hand_index,
                             big_blind_index, street, pot, current_bets,
                             current_bet_amount, hand_active, to_act_index,
                             pending_to_act, ai_timer, sb_amount, bb_amount,
                             last_action_text, raised, street_log, hand_start_chips,
                             raises, acted, dealt_only, draws, hand_score, cpu_call>>

\* _score_5(board)
ScoreFive ==
    /\ hand_score = <<>> /\ Len(community) = 5 /\ Len(hand[HumanSeat]) = 0
    /\ hand_score' = score_5(SeqToSet(community))
    /\ UNCHANGED <<chips, hand, folded, community, deck, hand_number, hand_index,
                   big_blind_index, street, pot, current_bets, current_bet_amount,
                   hand_active, to_act_index, pending_to_act, ai_timer, sb_amount,
                   bb_amount, last_action_text, raised, street_log, hand_start_chips,
                   raises, acted, dealt_only, draws, cpu_call>>

\* best_of_7(hole + board)
BestOfSeven ==
    /\ hand_score = <<>> /\ Len(community) = 5 /\ Len(hand[HumanSeat]) = 2
    /\ hand_score' = best_of_7(hand[HumanSeat] \o community)
    /\ UNCHANGED <<chips, hand, folded, community, deck, hand_number, hand_index,
                   big_blind_index, street, pot, current_bets, current_bet_amount,
                   hand_active, to_act_index, pending_to_act, ai_timer, sb_amount,
                   bb_amount, last_action_text, raised, street_log, hand_start_chips,
                   raises, acted, dealt_only, draws, cpu_call>>

EvalNext == LayFive \/ LaySeven \/ ScoreFive \/ BestOfSeven

EvalSpec == Init /\ [][EvalNext]_vars

----------------------------------------------------------------------------
(* The CPU policy on its own: a CPU seat is given a stack and a spot, then   *)
(* CPUPlayer.choose_action is called with the values PokerTable.update reads *)

PolicyChips == {0, 20, 21, 160, 161, 1000}
PolicyBigBlinds == {20, 45}
PolicyBets == {0, 20, 100}
PolicyPots == {30, 155, 400}
PolicyHoles == {<<>>, <<FreshDeck[1], FreshDeck[2]>>}

\* a CPU seat with its stack, fold flag and hole cards, and the spot it is in
SeatCPU ==
    /\ to_act_index = None /\ hand_number = 0 /\ cpu_call = <<>>
    /\ \E seat \in CPUSeats, c \in PolicyChips, f \in BOOLEAN, bb \in PolicyBigBlinds,
          own \in PolicyBets, cb \in PolicyBets, p \in PolicyPots, hole \in PolicyHoles :
          /\ own <= cb
          /\ chips' = [chips EXCEPT ![seat] = c]
          /\ folded' = [folded EXCEPT ![seat] = f]
          /\ hand' = [hand EXCEPT ![seat] = hole]
          /\ bb_amount' = bb
          /\ current_bet_amount' = cb
          /\ current_bets' = IF own > 0 THEN Put(EmptyDict, seat, own) ELSE EmptyDict
          /\ pot' = p
          /\ to_act_index' = seat
    /\ UNCHANGED <<community, deck, hand_number, hand_index, big_blind_index, street,
                   hand_active, pending_to_act, ai_timer, sb_amount, last_action_text,
                   raised, street_log, hand_start_chips, raises, acted, dealt_only,
                   draws, hand_score, cpu_call>>

\* choose_action(to_call, current_bet, big_blind, pot, hole, community)
ChooseAction ==
    /\ to_act_index \in CPUSeats /\ cpu_call = <<>>
    /\ LET t == Table
           seat == to_act_index
       IN  \E o \in choose_action(Personality(seat), t.folded[seat], t.chips[seat],
                                  to_call(t, seat), t.current_bet_amount, t.bb_amount,
                                  t.pot, t.hand[seat]) :
              cpu_call' = o
    /\ UNCHANGED <<chips, hand, folded, community, deck, hand_number, hand_index,
                   big_blind_index, street, pot, current_bets, current_bet_amount,
                   hand_active, to_act_index, pending_to_act, ai_timer, sb_amount,
                   bb_amount, last_action_text, raised, street_log, hand_start_chips,
                   raises, acted, dealt_only, draws, hand_score>>

PolicyNext == SeatCPU \/ ChooseAction

PolicySpec == Init /\ [][PolicyNext]_vars

----------------------------------------------------------------------------
(* The strength estimate on its own: a CPU seat is given hole cards and a    *)
(* revealed board, then CPUPlayer._estimate_strength runs its iterations.    *)
(* cpu_call is <<iterations done, wins, opp, board, win, returned, rng>>,    *)
(* returned being <<wins, iters>> once the method has returned wins / iters. *)

EstimateSeat == 1
EstimateHoles == {<<>>, <<CardOf(14, 0), CardOf(14, 1)>>}
EstimateBoards ==
    {<<>>,
     <<CardOf(2, 0), CardOf(3, 0), CardOf(4, 0)>>,
     <<CardOf(2, 0), CardOf(3, 0), CardOf(4, 0), CardOf(9, 1)>>,
     <<CardOf(2, 0), CardOf(3, 0), CardOf(4, 0), CardOf(9, 1), CardOf(13, 2)>>}

\* the seat's hole cards and the revealed community cards
SeatEstimate ==
    /\ to_act_index = None /\ hand_number = 0 /\ cpu_call = <<>>
    /\ \E hole \in EstimateHoles, board \in EstimateBoards, rng \in RngSeeds :
          /\ hand' = [hand EXCEPT ![EstimateSeat] = hole]
          /\ community' = board
          /\ cpu_call' = <<0, 0, <<>>, <<>>, 0, <<>>, rng>>
    /\ to_act_index' = EstimateSeat
    /\ UNCHANGED <<chips, folded, deck, hand_number, hand_index, big_blind_index,
                   street, pot, current_bets, current_bet_amount, hand_active,
                   pending_to_act, ai_timer, sb_amount, bb_amount, last_action_text,
                   raised, street_log, hand_start_chips, raises, acted, dealt_only,
                   draws, hand_score>>

EstimateRest ==
    UNCHANGED <<chips, hand, folded, community, deck, hand_number, hand_index,
                big_blind_index, street, pot, current_bets, current_bet_amount,
                hand_active, to_act_index, pending_to_act, ai_timer, sb_amount,
                bb_amount, last_action_text, raised, street_log, hand_start_chips,
                raises, acted, dealt_only, draws, hand_score>>

\* one iteration of either loop
Iterate ==
    /\ to_act_index = EstimateSeat /\ cpu_call # <<>> /\ cpu_call[6] = <<>>
    /\ Len(hand[EstimateSeat]) = 2 /\ cpu_call[1] < Iters
    /\ LET hole == hand[EstimateSeat]
           drawn == rng_sample(estimate_remaining(hole, community),
                               2 + estimate_need(community), cpu_call[7])
           it == estimate_iteration(hole, community, drawn)
       IN  cpu_call' = <<cpu_call[1] + 1, cpu_call[2] + it[3], it[1], it[2], it[3],
                         <<>>, rng_next(cpu_call[7])>>
    /\ EstimateRest

\* return 0.0 for anything but two hole cards, wins / iters after the last iteration
ReturnStrength ==
    /\ to_act_index = EstimateSeat /\ cpu_call # <<>> /\ cpu_call[6] = <<>>
    /\ \/ Len(hand[EstimateSeat]) # 2 /\ cpu_call' = [cpu_call EXCEPT ![6] = <<0, Iters>>]
       \/ /\ Len(hand[EstimateSeat]) = 2 /\ cpu_call[1] = Iters
          /\ cpu_call' = [cpu_call EXCEPT ![6] = <<cpu_call[2], Iters>>]
    /\ EstimateRest

EstimateNext == SeatEstimate \/ Iterate \/ ReturnStrength

EstimateSpec == Init /\ [][EstimateNext]_vars

----------------------------------------------------------------------------
(* Claims C1 .. C10 *)

Unfolded == {s \in Seats : ~folded[s]}

\* C1: within a hand, after every completed operation, the pot plus all seats'
\* chips equals the chip total at the moment start_new_hand() was entered.
C1_PotConservation == hand_number > 0 => pot + TotalChips(chips) = hand_start_chips

\* a hand that saw a raise was played to showdown and its pot awarded
C1_Witness ==
    /\ hand_number > 0 /\ raises > 0 /\ street = SHOWDOWN
    /\ last_action_text.kind = "wins pot" /\ last_action_text.a > InitSmallBlind + InitBigBlind

\* an action got past the early returns of apply_action in this step
TurnStep == hand_active /\ acted' /\ hand_number' = hand_number

\* the hand's variant, compared in this order: the chips still held by the seats,
\* the streets still to come, the seats still to act in the round
VariantDecreases ==
    \/ TotalChips(chips') < TotalChips(chips)
    \/ /\ TotalChips(chips') = TotalChips(chips)
       /\ \/ street' > street
          \/ /\ street' = street
             /\ Cardinality(pending_to_act') < Cardinality(pending_to_act)

\* C2: every hand terminates: each action applied for the seat whose turn it is
\* either ends the hand or strictly lowers a variant that cannot fall forever
\* (chips held, then streets left, then seats still to act); a Bet or Raise
\* always takes chips, so raises cannot keep a round open.
C2_HandTerminates ==
    [][TurnStep => (~hand_active' \/ VariantDecreases)]_vars

\* a hand has ended at showdown after a last betting round in which the bet was
\* raised and re-raised: MaxReRaises Bet / Raise steps of one big blind each
C2_Witness ==
    /\ hand_number = 1 /\ ~hand_active /\ street = SHOWDOWN
    /\ raises = MaxReRaises
    /\ current_bet_amount = MaxReRaises * InitBigBlind

\* C3: update(dt) ticks at a CPU seat's turn run the timer down, invoke the CPU
\* policy and apply its action without any error being raised.
C3_TicksRaiseNoError == raised = "none"

\* score of a seat's two hole cards plus the five community cards
SeatScore(s) == best_of_7(hand[s] \o community)
\* the unfolded seat with the greatest score, the lowest index on an exact tie
BestSeat ==
    CHOOSE s \in Unfolded :
        \A o \in Unfolded : /\ ~ScoreGreater(SeatScore(o), SeatScore(s))
                            /\ (o < s => ScoreGreater(SeatScore(s), SeatScore(o)))
AtShowdown == street = SHOWDOWN /\ last_action_text.kind = "wins pot"

\* C4: at showdown with two or more unfolded seats the full pot goes to the unfolded
\* seat with the greatest (category, tie_break), the lowest seat index on a tie.
C4_BestHandWins ==
    (AtShowdown /\ Cardinality(Unfolded) >= 2) => last_action_text.seat = BestSeat

FoldStep == hand_active /\ \E s \in Seats : ~folded[s] /\ folded'[s]

\* C5: a Fold that leaves exactly one unfolded seat gives that seat exactly the
\* pot as it stood before the fold, zeroes the pot, ends the hand and deals nothing.
C5_FoldToOne ==
    [][(FoldStep /\ Cardinality(Unfolded') = 1) =>
          LET w == CHOOSE s \in Seats : ~folded'[s]
          IN  /\ chips' = [chips EXCEPT ![w] = @ + pot]
              /\ pot' = 0
              /\ ~hand_active'
              /\ community' = community
              /\ street' = street
              /\ deck' = deck]_vars

\* a hand ended on the flop with every seat but one folded
C5_Witness ==
    /\ ~hand_active /\ street = FLOP /\ Cardinality(Unfolded) = 1
    /\ last_action_text.kind = "wins pot" /\ pot = 0

\* C6: apply_action leaves the whole table unchanged and raises nothing when no hand
\* is active, the seat is not to_act_index or the seat is folded; human_action
\* does the same for seat 0.
C6_IgnoredCallsChangeNothing ==
    LET t == Table
    IN  \A seat \in Seats :
            (~hand_active \/ to_act_index # seat \/ folded[seat]) =>
                \A action \in Actions, raise_to_total \in RaiseTotals :
                    /\ apply_action(t, seat, action, raise_to_total) = t
                    /\ seat = HumanSeat => human_action(t, action, raise_to_total) = t

\* mid-hand, a seat has folded and it is not the human's turn
C6_Witness ==
    /\ hand_active /\ to_act_index # HumanSeat /\ raised = "none"
    /\ \E seat \in Seats : folded[seat] /\ seat # to_act_index

\* C7: update(dt) changes nothing when no hand is active, when to_act_index is
\* none, or when it is the human seat's turn.
C7_TickLeavesHumanTurn ==
    (~hand_active \/ to_act_index = None \/ to_act_index = HumanSeat) =>
        LET t == Table
        IN  \A dt \in Dts, think \in ThinkTimes : update(t, dt, think) = {t}

\* the human seat's turn in a hand where other seats have acted
C7_Witness == hand_active /\ to_act_index = HumanSeat /\ acted /\ raised = "none"

\* C8: within a hand the street moves forward one step at a time along PreFlop,
\* Flop, Turn, River, Showdown, and reaching Showdown awards the pot and ends the hand.
C8_StreetsInOrder ==
    /\ street_log = [i \in 1 .. street |-> i]
    /\ street = SHOWDOWN => (~hand_active /\ pot = 0 /\ last_action_text.kind = "wins pot")

\* a hand went through every street to showdown
C8_Witness == street = SHOWDOWN /\ Len(community) = 5 /\ ~hand_active

\* the first seat clockwise from `start` (included) that is unfolded and has chips
FirstAble(t, start) ==
    LET steps == {k \in 0 .. (NumPlayers - 1) :
                    LET idx == (start + k) % NumPlayers
                    IN  ~t.folded[idx] /\ t.chips[idx] > 0}
    IN  (start + SetMin(steps)) % NumPlayers

JustDealt == hand_active /\ last_action_text.kind = "Posted blinds"

\* C9: right after start_new_hand() the first seat to act is the first able seat
\* clockwise from big blind + 1, and when it folds the turn passes to the next able
\* seat; with the big blind at seat 2 and seats 3 and 4 holding chips these are
\* seats 3 and 4.
C9_FirstToAct ==
    JustDealt =>
        LET after_fold == apply_action(Table, to_act_index, FOLD, None)
        IN  /\ to_act_index = FirstAble(Table, (big_blind_index + 1) % NumPlayers)
            /\ (after_fold.hand_active /\ after_fold.street = PRE_FLOP) =>
                   after_fold.to_act_index =
                       FirstAble(after_fold, (to_act_index + 1) % NumPlayers)
            /\ (big_blind_index = 2 /\ chips[3] > 0 /\ chips[4] > 0) =>
                   (to_act_index = 3 /\ after_fold.to_act_index = 4)

\* dealt after a played hand with the big blind at seat 2: seat 3 lost its chips,
\* is skipped, and seat 4 is first to act
C9_Witness ==
    /\ JustDealt /\ dealt_only /\ big_blind_index = 2
    /\ chips[3] = 0 /\ chips[4] > 0
    /\ to_act_index = 4

\* requests tried for a Bet / Raise: omitted, below, at and above the minimum
C10Totals == {None, 0, 10, 25, 39, 40, 41, 1000}

\* C10: a Bet or Raise by a seat that can reach current_bet_amount + max(1, big_blind)
\* commits the seat to at least that much, whatever total was requested.
C10_MinRaise ==
    (hand_active /\ to_act_index # None) =>
        LET t == Table
            seat == to_act_index
            prev_bet == Get(current_bets, seat)
            least == current_bet_amount + Max(1, bb_amount)
        IN  prev_bet + chips[seat] >= least =>
                \A raise_to_total \in C10Totals :
                    Get(bet_to(t, seat, prev_bet,
                               raise_target(t, seat, raise_to_total)).t.current_bets,
                        seat) >= least

\* pre-flop, facing the big blind of 20, a seat has raised to exactly 40
C10_Witness ==
    /\ hand_active /\ street = PRE_FLOP /\ bb_amount = 20
    /\ last_action_text.kind = "raises to" /\ last_action_text.a = 40
    /\ current_bet_amount = 40

----------------------------------------------------------------------------
(* Claims C11 .. C20 *)

\* the street commitment and the chips of `seat` after bet_to(target)
Committed(t, seat, target) ==
    LET b == bet_to(t, seat, Get(t.current_bets, seat), target)
    IN  [total |-> Get(b.t.current_bets, seat), chips |-> b.t.chips[seat]]

\* requests tried for the all-in clamp: omitted, small, and beyond any stack
C11Totals == {None, 25, 1000, 5000}

\* C11: no seat pays more than it holds: every seat's chips are >= 0 in every state,
\* a Call, Bet or Raise commits at most the prior commitment plus the chips held, a
\* request at or beyond that ends all-in with 0 chips, and a seat with 30 chips and
\* no prior commitment asking for 1000 ends committed to exactly 30.
C11_NeverPaysMoreThanHeld ==
    /\ \A s \in Seats : chips[s] >= 0
    /\ (hand_active /\ to_act_index # None) =>
         LET t == Table
             seat == to_act_index
             prev_bet == Get(current_bets, seat)
             held == prev_bet + chips[seat]
             called == Committed(t, seat, prev_bet + to_call(t, seat))
             short == [t EXCEPT !.chips[seat] = 30]
             short_raise == Committed(short, seat, raise_target(short, seat, 1000))
         IN  /\ called.total <= held /\ called.chips >= 0
             /\ called.total + called.chips = held
             /\ \A raise_to_total \in C11Totals :
                   LET raised_to == Committed(t, seat, raise_target(t, seat, raise_to_total))
                   IN  /\ raised_to.total <= held /\ raised_to.chips >= 0
                       /\ raised_to.total + raised_to.chips = held
                       /\ (raise_to_total # None /\ raise_to_total >= held) =>
                              (raised_to.total = held /\ raised_to.chips = 0)
             /\ prev_bet = 0 => (short_raise.total = 30 /\ short_raise.chips = 0)

\* a seat that asked to raise to 1000 holding less is all-in for what it held
C11_Witness ==
    /\ hand_active /\ last_action_text.kind = "raises to"
    /\ last_action_text.a < 1000 /\ last_action_text.a > 40
    /\ chips[last_action_text.seat] = 0
    /\ Get(current_bets, last_action_text.seat) = last_action_text.a

\* C12: a folded seat stays folded for the rest of the hand, is never in
\* pending_to_act and never becomes to_act_index, whatever raises reopen the
\* betting and whatever streets open.
C12_FoldedStaysOut ==
    [][hand_number' = hand_number =>
          \A s \in Seats :
              /\ folded[s] => folded'[s]
              /\ folded'[s] => (s \notin pending_to_act' /\ to_act_index' # s)]_vars

\* after a fold, a raise on a later street has reopened the betting
C12_Witness ==
    /\ hand_active /\ street >= FLOP /\ last_action_text.kind = "raises to"
    /\ \E s \in Seats : folded[s]
    /\ Cardinality(pending_to_act) >= 2

\* C13: to_act_index is a seat index exactly when hand_active is true; when no
\* hand is active to_act_index is none and pending_to_act is empty.
C13_TurnOnlyWhileActive ==
    /\ hand_active <=> to_act_index \in Seats
    /\ ~hand_active => (to_act_index = None /\ pending_to_act = {})

\* a pot has just been awarded after a fold left one seat while others were pending
C13_Witness ==
    /\ ~hand_active /\ hand_number > 0 /\ last_action_text.kind = "wins pot"
    /\ street = PRE_FLOP /\ Cardinality(Unfolded) = 1
    /\ to_act_index = None /\ pending_to_act = {}

\* a BlindLevel(small_blind, big_blind, hands_per_level)
BlindLevel(sb, bb, hpl) == [small_blind |-> sb, big_blind |-> bb, hands_per_level |-> hpl]

\* blind schedules: the table's own, a single level, and levels of unequal length
Schedules ==
    {Levels,
     <<BlindLevel(10, 20, 5)>>,
     <<BlindLevel(10, 20, 2), BlindLevel(20, 40, 3), BlindLevel(40, 80, 1)>>,
     <<BlindLevel(5, 10, 1), BlindLevel(10, 20, 4), BlindLevel(15, 30, 2),
       BlindLevel(25, 50, 6)>>}

\* hands covered by the first i levels
RECURSIVE Cumulative(_, _)
Cumulative(levels, i) ==
    IF i = 0 THEN 0 ELSE Cumulative(levels, i - 1) + levels[i].hands_per_level

\* the smallest 0-based level whose cumulative hand count reaches h, else the last
ExpectedLevel(levels, h) ==
    LET reach == {i \in 1 .. Len(levels) : Cumulative(levels, i) >= h}
    IN  IF reach = {} THEN Len(levels) - 1 ELSE SetMin(reach) - 1

\* C14: after h calls of advance_hand() current_level_index() is the smallest level
\* whose cumulative hands_per_level reaches h, the last level beyond the total; it
\* never decreases as h grows and never exceeds the last index; with 5 hands per
\* level it is 0 for h in 0 .. 5 and 1 for h = 6.
C14_LevelIndex ==
    /\ \A levels \in Schedules :
          LET i == current_level_index(levels, hand_index)
          IN  /\ i = ExpectedLevel(levels, hand_index)
              /\ i >= 0 /\ i <= Len(levels) - 1
              /\ hand_index > 0 => i >= current_level_index(levels, hand_index - 1)
    /\ hand_index <= 5 => current_level_index(Levels, hand_index) = 0
    /\ hand_index = 6 => current_level_index(Levels, hand_index) = 1

\* more hands were counted than the schedule covers: the last level stays
C14_Witness ==
    /\ hand_index > Cumulative(Levels, Len(Levels))
    /\ current_level_index(Levels, hand_index) = NumLevels - 1
    /\ current_blinds(Levels, hand_index) = <<385, 770>>

\* C15: after reset() remaining() is 52; after N successful draw() calls since the
\* last reset remaining() is 52 - N; a draw() on the empty deck fails with the
\* empty-deck error and leaves the deck empty.
C15_DeckCount ==
    LET d == draw([Table EXCEPT !.raised = "none"])
    IN  /\ draws \in 0 .. DeckSize
        /\ remaining(deck) = DeckSize - draws
        /\ draws = 0 => remaining(deck) = 52
        /\ \A k \in DeckSeeds : remaining(ShuffleOrder(k)) = 52
        /\ remaining(deck) > 0 =>
              (d.t.raised = "none" /\ remaining(d.t.deck) = remaining(deck) - 1)
        /\ remaining(deck) = 0 => (d.t.raised = "RuntimeError" /\ d.t.deck = <<>>)
        /\ raised = "RuntimeError" => (deck = <<>> /\ draws = DeckSize)

\* the 53rd draw has failed on the empty deck
C15_Witness == raised = "RuntimeError" /\ draws = 52 /\ remaining(deck) = 0

\* the seven cards laid out, and their 21 five-card subsets
Laid == SeqToSet(hand[HumanSeat]) \cup SeqToSet(community)
FiveSubsets(S) == {F \in SUBSET S : Cardinality(F) = 5}

\* x >= y in the order on (category, tie_break): category first, then the vectors
ScoreAtLeast(x, y) ==
    \/ x[1] > y[1]
    \/ x[1] = y[1] /\ (x[2] = y[2] \/ TupleGreater(x[2], y[2]))

\* C16: for seven distinct cards best_of_7 returns the (category, tie_break) that
\* is the lexicographic maximum of the scores of all 21 five-card subsets, the
\* categories ordered High Card < Pair < Two Pair < Three of a Kind < Straight <
\* Flush < Full House < Four of a Kind < Straight Flush.
C16_BestOfSevenIsMax ==
    /\ HIGH_CARD < ONE_PAIR /\ ONE_PAIR < TWO_PAIR /\ TWO_PAIR < THREE_OF_A_KIND
    /\ THREE_OF_A_KIND < STRAIGHT /\ STRAIGHT < FLUSH /\ FLUSH < FULL_HOUSE
    /\ FULL_HOUSE < FOUR_OF_A_KIND /\ FOUR_OF_A_KIND < STRAIGHT_FLUSH
    /\ (hand_score # <<>> /\ Cardinality(Laid) = 7) =>
          LET scores == {score_5(F) : F \in FiveSubsets(Laid)}
          IN  /\ Cardinality(FiveSubsets(Laid)) = 21
              /\ hand_score \in scores
              /\ \A sc \in scores : ScoreAtLeast(hand_score, sc)

\* seven cards were scored whose best five include the last card laid out:
\* four aces and the 6 of diamonds as kicker
C16_Witness ==
    /\ Cardinality(Laid) = 7
    /\ hand_score = <<FOUR_OF_A_KIND, <<14, 6>> >>
    /\ community[5] = CardOf(14, 3)

\* a >= b for tie-break vectors, in lexicographic order
TieBreakAtLeast(a, b) == a = b \/ TupleGreater(a, b)

\* C17 as written: the returned category is >= the category of every five-card
\* subset, and the returned tie-break vector is the lexicographic maximum of the
\* tie-break vectors of all 21 subsets.
C17_TieBreakMaxOfAll ==
    (hand_score # <<>> /\ Cardinality(Laid) = 7) =>
        \A F \in FiveSubsets(Laid) :
            /\ hand_score[1] >= score_5(F)[1]
            /\ TieBreakAtLeast(hand_score[2], score_5(F)[2])

\* C17, amended: the returned category is >= the category of every five-card subset,
\* and the returned tie-break vector is the lexicographic maximum of the tie-break
\* vectors of the subsets that score in the returned category.
C17_TieBreakMaxInCategory ==
    (hand_score # <<>> /\ Cardinality(Laid) = 7) =>
        LET scores == {score_5(F) : F \in FiveSubsets(Laid)}
            same == {sc \in scores : sc[1] = hand_score[1]}
        IN  /\ \A sc \in scores : hand_score[1] >= sc[1]
            /\ same # {}
            /\ \E sc \in same : sc[2] = hand_score[2]
            /\ \A sc \in same : TieBreakAtLeast(hand_score[2], sc[2])

\* aces and twos with a 6 kicker: several two-pair subsets, and an ace-high subset
\* whose vector (14, 6, 4, 3, 2) is above the returned (14, 2, 6)
C17_Witness ==
    /\ Cardinality(Laid) = 7
    /\ hand_score = <<TWO_PAIR, <<14, 2, 6>> >>
    /\ \E F \in FiveSubsets(Laid) : score_5(F) = <<HIGH_CARD, <<14, 6, 4, 3, 2>> >>
    /\ \E F \in FiveSubsets(Laid) : score_5(F) = <<TWO_PAIR, <<14, 2, 3>> >>

\* the five-card hands of the ranks h-4 .. h (the Ace standing for 1 when h = 5),
\* one card per rank, over every choice of suits
\* the four suits, as the deck lays them out
Suits == {SuitOf(c) : c \in Cards}
StraightRanks(h) == IF h = 5 THEN {14, 2, 3, 4, 5} ELSE (h - 4) .. h
StraightHands(h) ==
    {{CardOf(v, f[v]) : v \in StraightRanks(h)} : f \in [StraightRanks(h) -> Suits]}
MixedSuits(F) == Cardinality({SuitOf(c) : c \in F}) > 1
OneSuit(F) == Cardinality({SuitOf(c) : c \in F}) = 1

\* the five cards laid out for score_5
LaidFive == Len(community) = 5 /\ Len(hand[HumanSeat]) = 0
LaidWheel == LaidFive /\ {RankVal(c) : c \in SeqToSet(community)} = StraightRanks(5)

\* every mixed-suit wheel scores Straight (5); every mixed-suit straight with high
\* card h in 6 .. 14 scores Straight (h), which compares above the wheel's score
WheelBelowEveryStraight ==
    /\ \A W \in StraightHands(5) : MixedSuits(W) => score_5(W) = <<STRAIGHT, <<5>> >>
    /\ \A h \in 6 .. 14 : \A S \in StraightHands(h) :
          MixedSuits(S) =>
              /\ score_5(S) = <<STRAIGHT, <<h>> >>
              /\ ScoreGreater(score_5(S), <<STRAIGHT, <<5>> >>)
              /\ ~ScoreGreater(<<STRAIGHT, <<5>> >>, score_5(S))

\* C18: five cards A,2,3,4,5 of mixed suits score Straight with tie-break (5), below
\* every 6-high and higher straight; the Ace is not the wheel's high card.
C18_WheelIsFiveHigh ==
    /\ WheelBelowEveryStraight
    /\ (hand_score # <<>> /\ LaidWheel /\ MixedSuits(SeqToSet(community))) =>
          /\ hand_score = <<STRAIGHT, <<5>> >>
          /\ hand_score[2][1] # 14
    /\ (hand_score # <<>> /\ LaidFive /\ hand_score[1] = STRAIGHT /\ ~LaidWheel) =>
          ScoreGreater(hand_score, <<STRAIGHT, <<5>> >>)

C18_Witness ==
    /\ LaidWheel
    /\ MixedSuits(SeqToSet(community))
    /\ hand_score = <<STRAIGHT, <<5>> >>

\* the straight high cards h for which S holds five one-suit cards of StraightRanks(h)
FlushStraightHighs(S) ==
    {h \in 5 .. 14 : \E suit \in Suits : {CardOf(v, suit) : v \in StraightRanks(h)} \subseteq S}

\* companions for a seven-card hand: cards of other suits that pair the two
\* highest ranks of the five cards F
Companions(F) ==
    LET top == SetMax({RankVal(c) : c \in F}, 0)
        next == SetMax({RankVal(c) : c \in F} \ {top}, 0)
    IN  {c \in Cards \ F : RankVal(c) \in {top, next}}

\* every one-suit straight, the wheel included, scores Straight Flush (high card),
\* alone and as part of seven cards
EveryFlushStraightScores ==
    \A h \in 5 .. 14 : \A S \in StraightHands(h) :
        OneSuit(S) =>
            /\ score_5(S) = <<STRAIGHT_FLUSH, <<h>> >>
            /\ \A E \in SUBSET Companions(S) :
                  Cardinality(E) = 2 =>
                      best_of_7(SetToSeq(S \cup E))[1] = STRAIGHT_FLUSH

\* C19: five one-suit cards forming a straight (the wheel included) score Straight
\* Flush with tie-break (straight high card), never Flush or Straight, and seven cards
\* containing such five cards evaluate as Straight Flush.
C19_StraightFlush ==
    /\ EveryFlushStraightScores
    /\ (hand_score # <<>> /\ LaidFive /\ FlushStraightHighs(SeqToSet(community)) # {}) =>
          /\ hand_score[1] = STRAIGHT_FLUSH
          /\ hand_score[2] = <<SetMax(FlushStraightHighs(SeqToSet(community)), 0)>>
    /\ (hand_score # <<>> /\ Cardinality(Laid) = 7 /\ FlushStraightHighs(Laid) # {}) =>
          /\ hand_score[1] = STRAIGHT_FLUSH
          /\ hand_score[2] = <<SetMax(FlushStraightHighs(Laid), 0)>>

\* seven cards holding the one-suit wheel and a mixed-suit 6-high straight
C19_Witness ==
    /\ Cardinality(Laid) = 7
    /\ FlushStraightHighs(Laid) = {5}
    /\ hand_score = <<STRAIGHT_FLUSH, <<5>> >>
    /\ \E F \in FiveSubsets(Laid) : score_5(F) = <<STRAIGHT, <<6>> >>

\* the table g is as start_new_game() leaves it
FreshGame(g) ==
    /\ \A s \in Seats : g.chips[s] = StartingChips
    /\ g.hand_index = 0
    /\ g.hand_number = 0
    /\ g.big_blind_index = 0
    /\ g.pot = 0
    /\ \A s \in Seats : ~g.folded[s] /\ g.hand[s] = <<>>
    /\ ~g.hand_active

\* C20: after start_new_game(), from any reachable state including mid-hand, every
\* seat holds the starting chips, the blind schedule's hand counter, hand_number and
\* big_blind_index are 0, pot is 0, no seat is folded or holds cards, and hand_active
\* is false.  Stated for the call made in every reachable state, and for every state
\* a call has led to (hand_number = 0).
C20_NewGameResets ==
    LET t == Table
    IN  /\ \A k \in ShuffleSeeds : FreshGame(start_new_game(t, ShuffleOrder(k)))
        /\ hand_number = 0 => FreshGame(t)

\* mid-hand in the second hand of a game: chips are in the pot, a seat has folded,
\* the big blind has moved, and the call resets all of it
C20_Witness ==
    LET t == Table
    IN  /\ hand_active /\ raised = "none"
        /\ hand_number = 2 /\ hand_index = 2 /\ big_blind_index = 1
        /\ pot > 0
        /\ \E s \in Seats : folded[s]
        /\ \E s \in Seats : chips[s] # StartingChips /\ Len(hand[s]) = 2
        /\ ~FreshGame(t)
        /\ \A k \in ShuffleSeeds : FreshGame(start_new_game(t, ShuffleOrder(k)))

----------------------------------------------------------------------------
(* Claims C21 .. C30                                                        *)

\* C21: the big blind is seat 0 in the first hand of a game and moves one seat
\* clockwise (+1 modulo the seat count) at each later start_new_hand(); in every
\* reachable state big_blind_index, small_blind_index() = big blind - 1 and
\* dealer_index() = big blind - 2 (modulo the seat count) are seat indices, and the
\* seat count does not change.  hand_number counts the start_new_hand() calls of a
\* game, so the move is big_blind_index = (hand_number - 1) modulo the seat count;
\* the move from the last seat back to seat 0 is stated for the call itself.
C21_BigBlindRotates ==
    LET t == Table
        last == [t EXCEPT !.big_blind_index = NumPlayers - 1, !.hand_number = NumPlayers]
    IN  /\ DOMAIN chips = Seats /\ DOMAIN hand = Seats /\ DOMAIN folded = Seats
        /\ Cardinality(Seats) = NumPlayers
        /\ big_blind_index \in Seats
        /\ small_blind_index(t) \in Seats
        /\ dealer_index(t) \in Seats
        /\ (small_blind_index(t) + 1) % NumPlayers = big_blind_index
        /\ (dealer_index(t) + 2) % NumPlayers = big_blind_index
        /\ hand_number = 0 => big_blind_index = 0
        /\ hand_number >= 1 => big_blind_index = (hand_number - 1) % NumPlayers
        /\ hand_number = 0 =>
              \A k \in ShuffleSeeds :
                  /\ start_new_hand(t, ShuffleOrder(k)).big_blind_index = 0
                  /\ start_new_hand(last, ShuffleOrder(k)).big_blind_index = 0

\* the second hand of a game: the big blind has moved to seat 1, the dealer is the
\* last seat
C21_Witness ==
    /\ hand_active
    /\ hand_number = 2
    /\ big_blind_index = 1
    /\ small_blind_index(Table) = 0
    /\ dealer_index(Table) = NumPlayers - 1

\* C22: after a hand ends at showdown the table exposes a showdown summary that stays
\* available until the next start_new_hand(): the table has the attribute, and the
\* frame drawn then reads it without an error.
C22_ShowdownSummaryExposed ==
    (street = SHOWDOWN /\ ~hand_active /\ raised = "none") =>
        /\ "showdown_summary" \in TableAttributes
        /\ screen_draw(Table).raised = "none"

\* sum(current_bets.values())
SumBets == SumOver(current_bets, DOMAIN current_bets)

\* C23 as written: at every observation point between operations the pot is at least
\* the sum of current_bets over all seats, with equality throughout the pre-flop street.
C23_BetsWithinPot ==
    /\ pot >= SumBets
    /\ street = PRE_FLOP => pot = SumBets

\* C23, amended: at every observation point between operations while a hand is
\* active, the pot is at least the sum of current_bets over all seats, with equality
\* throughout the pre-flop street.
C23_BetsWithinPotWhileActive ==
    hand_active =>
        /\ pot >= SumBets
        /\ street = PRE_FLOP => pot = SumBets

\* a bet on a later street: the pot holds the pre-flop chips as well
C23_Witness ==
    /\ hand_active
    /\ street # PRE_FLOP
    /\ SumBets > 0
    /\ pot > SumBets

\* the cards held by the seats, on the board and in the deck, as one tuple
RECURSIVE HoleCardsFrom(_)
HoleCardsFrom(s) == IF s = NumPlayers THEN <<>> ELSE hand[s] \o HoleCardsFrom(s + 1)
CardsInPlay == HoleCardsFrom(0) \o community \o deck

\* _burn() has run once for every later street the hand has entered
Burns == Cardinality(SeqToSet(street_log) \cap {FLOP, TURN, RIVER})

\* the cards that are in no hand, not on the board and not in the deck
Burned == Cards \ SeqToSet(CardsInPlay)

\* C24: within one hand no card is in two places: the seats' hole cards, the community
\* cards, the burned cards and the deck are pairwise disjoint and together are exactly
\* the 52 cards, from start_new_hand() to the next reset.
C24_NoCardTwice ==
    (hand_number >= 1 /\ raised = "none") =>
        /\ SeqToSet(CardsInPlay) \subseteq Cards
        /\ Cardinality(SeqToSet(CardsInPlay)) = Len(CardsInPlay)
        /\ \A s \in Seats : Len(hand[s]) = HoleCards
        /\ Cardinality(Burned) = Burns
        /\ Len(CardsInPlay) + Burns = DeckSize

\* a hand on the river: ten hole cards, five board cards, three burned
C24_Witness ==
    /\ hand_active
    /\ street = RIVER
    /\ Len(community) = 5
    /\ Cardinality(Burned) = 3
    /\ remaining(deck) = 34

\* C25: for small_blind > 0, big_blind > small_blind, hands_per_level > 0, levels > 0
\* and growth > 1, default_blind_structure raises no error and returns a schedule whose
\* every level has big_blind > small_blind > 0, also when the two blinds round to the
\* same multiple of 5 (1/2, 10/11).
C25_ScheduleBuilt ==
    /\ raised = "none"
    /\ \A n \in BuildLevelCounts :
          (sb_amount > 0 /\ bb_amount > sb_amount) =>
              /\ blind_structure_error(sb_amount, bb_amount, HandsPerLevel, n) = "none"
              /\ \A k \in 1 .. n :
                    LET lvl == default_blind_structure(sb_amount, bb_amount, HandsPerLevel, n)[k]
                    IN  lvl.big_blind > lvl.small_blind /\ lvl.small_blind > 0

\* a step in which the pot is awarded: the hand ends without a new game
AwardStep == hand_active /\ ~hand_active' /\ hand_number' = hand_number

\* C26: every pot award gives the entire pot to exactly one unfolded seat and sets pot
\* to 0: no split, no side pot, also when unfolded seats are all-in for unequal
\* amounts and the receiving seat committed less than the others.  In the step of an
\* award the named winner is unfolded, no other seat gains a chip, and the winner's
\* stack grows by the pot and by what the step's action paid into it.
C26_AwardIsWhole ==
    [][AwardStep =>
          LET w == last_action_text'.seat
              paid == SumOver([s \in Seats |-> chips[s] - chips'[s]], Seats \ {w})
          IN  /\ pot' = 0
              /\ last_action_text'.kind = "wins pot"
              /\ w \in Seats
              /\ ~folded'[w]
              /\ Cardinality({s \in Seats : chips'[s] > chips[s]}) <= 1
              /\ \A s \in Seats \ {w} : chips'[s] <= chips[s]
              /\ chips'[w] = chips[w] + pot + paid
              /\ last_action_text'.a >= pot + paid]_vars

\* what seat s has put in on the street once the seat to act has called
CommittedAfterCall(s) ==
    Get(current_bets, s)
        + (IF s = to_act_index THEN Min(chips[s], to_call(Table, s)) ELSE 0)

\* the last call of a pre-flop all-in on unequal stacks: the call ends the hand at the
\* showdown, the winner is all-in for less than another all-in seat, and takes it all
C26_Witness ==
    /\ hand_active /\ dealt_only /\ street = PRE_FLOP /\ raises = 1
    /\ LET after == apply_action(Table, to_act_index, CALL, None)
           w == after.last_action_text.seat
       IN  /\ ~after.hand_active
           /\ after.street = SHOWDOWN
           /\ after.pot = 0
           /\ CommittedAfterCall(w) > 0
           /\ \E s \in Seats \ {w} :
                 /\ ~folded[s]
                 /\ after.chips[s] = 0
                 /\ CommittedAfterCall(s) > CommittedAfterCall(w)
           /\ after.chips[w] = SumOver([s \in Seats |-> CommittedAfterCall(s)], Seats)

\* how many seats clockwise seat i sits after seat a: 1 for the next seat, the seat
\* count for a itself
SeatsAfter(a, i) == ((i - a - 1) % NumPlayers) + 1

\* a step of an applied action that leaves the betting round open
RoundGoesOn ==
    /\ hand_active /\ hand_active'
    /\ hand_number' = hand_number
    /\ street' = street
    /\ to_act_index # None

\* C27: after an action that does not end the betting round, to_act_index is the first
\* seat clockwise from the actor that is in pending_to_act, is not folded and has
\* chips > 0; the seat named by to_act_index is always unfolded with chips > 0, so a
\* seat with 0 chips is never asked to act.
C27_NextToAct ==
    [][/\ to_act_index' # None => (~folded'[to_act_index'] /\ chips'[to_act_index'] > 0)
       /\ RoundGoesOn =>
             LET able == {i \in pending_to_act' : ~folded'[i] /\ chips'[i] > 0}
             IN  /\ to_act_index' \in able
                 /\ \A i \in able :
                       SeatsAfter(to_act_index, to_act_index') <= SeatsAfter(to_act_index, i)]_vars

\* pre-flop in a hand with chip-less seats dealt in: the seat after the last actor
\* holds cards but no chips, and the turn has passed it by
C27_Witness ==
    /\ hand_active /\ dealt_only /\ street = PRE_FLOP
    /\ last_action_text.kind \in {"raises to", "calls"}
    /\ LET a == last_action_text.seat
           skipped == (a + 1) % NumPlayers
       IN  /\ ~folded[skipped]
           /\ chips[skipped] = 0
           /\ to_act_index \notin {None, skipped, a}
           /\ chips[to_act_index] > 0
           /\ to_act_index \in pending_to_act

\* a step that takes the hand to another street
StreetMoves == hand_active /\ hand_number' = hand_number /\ street' # street

\* C28: when the Flop, Turn or River round opens with a seat able to act, the first to
\* act is the first seat clockwise, starting at the small-blind seat (dealer + 1), that
\* is unfolded and has chips > 0; when no seat can act the remaining streets are run
\* without asking anyone and the hand is resolved.  A step that moves the street either
\* opens a round for such a seat, or ends the hand at the showdown; when it ran more
\* than the river, every unfolded seat was out of chips before the award.
C28_FirstToActLaterStreets ==
    [][StreetMoves =>
          LET able == {i \in Seats : ~folded'[i] /\ chips'[i] > 0}
              dealer == dealer_index(Table)
              w == last_action_text'.seat
          IN  /\ street' \in {FLOP, TURN, RIVER} =>
                    /\ hand_active'
                    /\ able # {}
                    /\ to_act_index' \in able
                    /\ \A i \in able : SeatsAfter(dealer, to_act_index') <= SeatsAfter(dealer, i)
                    /\ pending_to_act' = able
              /\ street' \notin {FLOP, TURN, RIVER} =>
                    /\ street' = SHOWDOWN
                    /\ ~hand_active'
                    /\ to_act_index' = None
                    /\ pot' = 0
                    /\ Len(community') = FlopCards + TurnCards + RiverCards
              /\ (street' = SHOWDOWN /\ street # RIVER) =>
                    /\ \A s \in Seats \ {w} : ~folded'[s] => chips'[s] = 0
                    /\ chips'[w] = last_action_text'.a]_vars

\* the flop round has just opened: the small blind is still in but all-in, and the
\* first seat after it that holds chips is asked
C28_Witness ==
    /\ hand_active /\ street = FLOP
    /\ current_bets = EmptyDict
    /\ LET sb == small_blind_index(Table)
           able == {i \in Seats : ~folded[i] /\ chips[i] > 0}
       IN  /\ ~folded[sb] /\ chips[sb] = 0
           /\ pending_to_act = able
           /\ to_act_index \in able
           /\ \A i \in able : SeatsAfter(dealer_index(Table), to_act_index)
                                 <= SeatsAfter(dealer_index(Table), i)

\* a step in which a Bet or Raise lifts the table bet level and the round stays open
RaiseStep ==
    /\ hand_active /\ hand_active'
    /\ hand_number' = hand_number
    /\ street' = street
    /\ current_bet_amount' > current_bet_amount

\* C29: after a Bet or Raise that lifts the table bet level, pending_to_act is exactly
\* the set of seats that are unfolded and have chips > 0, minus the actor: every such
\* seat, also one that had already acted in the round, must act again.
C29_RaiseReopens ==
    [][RaiseStep =>
          /\ last_action_text'.kind \in {"bets", "raises to"}
          /\ last_action_text'.seat = to_act_index
          /\ pending_to_act' =
                {s \in Seats : ~folded'[s] /\ chips'[s] > 0} \ {to_act_index}]_vars

\* pre-flop, right after a raise: a seat that is not a blind had already called and is
\* among the seats to act again
C29_Witness ==
    /\ hand_active /\ street = PRE_FLOP
    /\ last_action_text.kind \in {"bets", "raises to"}
    /\ current_bet_amount > bb_amount
    /\ pending_to_act = {s \in Seats : ~folded[s] /\ chips[s] > 0} \ {last_action_text.seat}
    /\ \E s \in pending_to_act :
          /\ s \notin {big_blind_index, small_blind_index(Table)}
          /\ Get(current_bets, s) = bb_amount

\* raise_to_total inputs for C30: omitted, and more than any seat holds
C30Totals == {None, NumPlayers * StartingChips}

\* the seat to act cannot reach the table bet level: whatever it asks for, its clamped
\* total stays at or under the level and it pays no more than the call would cost
ShortStacked(t, seat) ==
    /\ t.chips[seat] > 0
    /\ Get(t.current_bets, seat) + t.chips[seat] <= t.current_bet_amount

\* C30: a Bet or Raise whose clamped total does not exceed the previous table bet level
\* and whose payment does not exceed the call cost (a short all-in) behaves as a call:
\* current_bet_amount is unchanged, only the actor leaves pending_to_act and no seat is
\* added to it; conversely a Bet or Raise reopens the betting only if it strictly
\* increases current_bet_amount.  Stated for the Bet or Raise of the seat to act in
\* every reachable state of a hand.
C30_ShortAllInIsCall ==
    LET t == Table
        seat == to_act_index
    IN  (hand_active /\ raised = "none" /\ seat # None) =>
            \A action \in {BET, RAISE}, total \in C30Totals :
                LET r == apply_action(t, seat, action, total)
                    c == apply_action(t, seat, CALL, None)
                    target == raise_target(t, seat, total)
                    paid == Min(target - Get(current_bets, seat), chips[seat])
                    goes_on == r.hand_active /\ r.street = street
                    able == {s \in Seats : ~r.folded[s] /\ r.chips[s] > 0}
                IN  /\ (target <= current_bet_amount /\ paid <= to_call(t, seat)) =>
                          /\ [r EXCEPT !.last_action_text = NoText]
                                = [c EXCEPT !.last_action_text = NoText]
                          /\ goes_on =>
                                /\ r.current_bet_amount = current_bet_amount
                                /\ r.pending_to_act = pending_to_act \ {seat}
                    /\ goes_on =>
                          \/ /\ r.current_bet_amount > current_bet_amount
                             /\ r.pending_to_act = able \ {seat}
                          \/ /\ r.current_bet_amount = current_bet_amount
                             /\ r.pending_to_act = pending_to_act \ {seat}
                             /\ ShortStacked(t, seat)

\* a seat that cannot cover the bet is to act while a seat that already acted still
\* holds chips: its raise is an all-in for less, and that seat is not asked again
C30_Witness ==
    LET t == Table
        seat == to_act_index
    IN  /\ hand_active /\ raised = "none" /\ seat # None
        /\ ShortStacked(t, seat)
        /\ LET r == apply_action(t, seat, RAISE, None)
           IN  /\ r.hand_active /\ r.street = street
               /\ r.chips[seat] = 0
               /\ r.current_bet_amount = current_bet_amount
               /\ r.pending_to_act = pending_to_act \ {seat}
               /\ \E s \in Seats \ (pending_to_act \cup {seat}) :
                     ~r.folded[s] /\ r.chips[s] > 0

----------------------------------------------------------------------------
(* Claims C31 .. C40                                                        *)

\* C31: a Check or Call by the acting seat with to_call > 0 moves min(to_call, chips)
\* from the seat to the pot, making its street commitment min(current_bet_amount,
\* prior commitment + chips), and leaves current_bet_amount unchanged; with
\* to_call = 0 it moves no chips; either way the seat leaves pending_to_act and no
\* seat is added.  Stated for the Check and the Call of the seat to act in every
\* reachable state of a hand; when the call closes the round, the bets are cleared and
\* the chips moved show in the pot that is carried on or awarded.
C31_CheckCall ==
    LET t == Table
        seat == to_act_index
    IN  (hand_active /\ raised = "none" /\ seat # None) =>
            LET c == apply_action(t, seat, CALL, None)
                k == apply_action(t, seat, CHECK, None)
                cost == to_call(t, seat)
                moved == IF cost > 0 THEN Min(cost, chips[seat]) ELSE 0
                goes_on == c.hand_active /\ c.street = street
                awarded == IF c.hand_active THEN 0 ELSE pot + moved
            IN  /\ [k EXCEPT !.last_action_text = NoText] = [c EXCEPT !.last_action_text = NoText]
                /\ c.pot + SumOver(c.chips, Seats) = pot + SumOver(chips, Seats)
                /\ c.hand_active => c.pot = pot + moved
                /\ \A s \in Seats \ {seat} : c.chips[s] \in {chips[s], chips[s] + awarded}
                /\ c.chips[seat] \in {chips[seat] - moved, chips[seat] - moved + awarded}
                /\ c.hand_active => c.chips[seat] = chips[seat] - moved
                /\ goes_on =>
                      /\ c.current_bet_amount = current_bet_amount
                      /\ Get(c.current_bets, seat) =
                            Min(current_bet_amount, Get(current_bets, seat) + chips[seat])
                      /\ \A s \in Seats \ {seat} :
                            Get(c.current_bets, s) = Get(current_bets, s)
                      /\ c.pending_to_act = pending_to_act \ {seat}
                /\ c.pending_to_act \subseteq pending_to_act \ {seat}
                      \/ ~c.hand_active \/ c.street # street

\* a seat that cannot cover the call is to act and the round stays open after it: the
\* call is an all-in for less than the table bet level
C31_Witness ==
    LET t == Table
        seat == to_act_index
    IN  /\ hand_active /\ raised = "none" /\ seat # None
        /\ chips[seat] > 0
        /\ chips[seat] < to_call(t, seat)
        /\ LET c == apply_action(t, seat, CALL, None)
           IN  /\ c.hand_active /\ c.street = street
               /\ c.chips[seat] = 0
               /\ c.pot = pot + chips[seat]
               /\ Get(c.current_bets, seat) < c.current_bet_amount
               /\ c.pending_to_act = pending_to_act \ {seat}

\* C32: a betting round is complete exactly when pending_to_act is empty: between
\* operations, while hand_active, pending_to_act is non-empty and contains
\* to_act_index (and is empty once the hand is over); the street advances or the hand
\* goes to the showdown only in an operation of the last seat owed an action.
C32_RoundCompleteWhenNonePending ==
    [][/\ hand_active' =>
             /\ pending_to_act' # {}
             /\ to_act_index' \in pending_to_act'
             /\ \A s \in pending_to_act' : ~folded'[s] /\ chips'[s] > 0
       /\ ~hand_active' => pending_to_act' = {} /\ to_act_index' = None
       /\ StreetMoves =>
             /\ to_act_index \in pending_to_act
             /\ pending_to_act \ {to_act_index} = {}]_vars

\* the flop round has just been opened by the check or call of the last seat owed an
\* action pre-flop: two or more seats are owed an action again
C32_Witness ==
    /\ hand_active /\ street = FLOP
    /\ last_action_text.kind \in {"calls", "checks"}
    /\ current_bets = EmptyDict
    /\ Cardinality(pending_to_act) >= 2
    /\ to_act_index \in pending_to_act
    /\ pending_to_act = {s \in Seats : ~folded[s] /\ chips[s] > 0}

\* community cards on the board for each street
BoardSize(s) ==
    IF s = PRE_FLOP THEN 0
    ELSE IF s = FLOP THEN FlopCards
    ELSE IF s = TURN THEN FlopCards + TurnCards
    ELSE FlopCards + TurnCards + RiverCards

\* streets passed, one burn each
BurnsBy(s) == IF s = PRE_FLOP THEN 0 ELSE IF s = FLOP THEN 1 ELSE IF s = TURN THEN 2 ELSE 3

\* C33: each street advance burns one card and then deals 3 (flop), 1 (turn) or
\* 1 (river) community cards, clears current_bets, sets current_bet_amount to 0 and
\* leaves pot and chips unchanged apart from what the closing action paid; hence while
\* a hand is active the community holds 0, 3, 4 or 5 cards on PreFlop, Flop, Turn,
\* River and the deck holds 52 - 2 * seats - community - (one burn per street passed)
\* cards, never running empty with 5 seats.
C33_StreetAdvanceDeals ==
    [][/\ raised' # "RuntimeError"
       /\ (hand_active' \/ (hand_number' > 0 /\ hand_number' = hand_number)) =>
             /\ street' # SHOWDOWN => Len(community') = BoardSize(street')
             /\ Len(community') \in {BoardSize(s) : s \in {PRE_FLOP, FLOP, TURN, RIVER}}
             /\ Len(deck') = DeckSize - HoleCards * NumPlayers - Len(community')
                                - BurnsBy(CHOOSE s \in {PRE_FLOP, FLOP, TURN, RIVER} :
                                              BoardSize(s) = Len(community'))
             /\ Len(deck') > 0
       /\ (StreetMoves /\ street' \in {FLOP, TURN, RIVER}) =>
             LET n == Len(deck)
                 k == cards_for(street')
                 actor == to_act_index
             IN  /\ street' = street_after(street)
                 /\ community' = community \o [i \in 1 .. k |-> deck[n - i]]
                 /\ deck' = SubSeq(deck, 1, n - 1 - k)
                 /\ current_bets' = EmptyDict
                 /\ current_bet_amount' = 0
                 /\ \A s \in Seats \ {actor} : chips'[s] = chips[s]
                 /\ pot' = pot + (chips[actor] - chips'[actor])
                 /\ pot' > 0]_vars

\* the turn round has just opened: four community cards, two burns
C33_Witness ==
    /\ hand_active /\ street = TURN
    /\ current_bets = EmptyDict /\ current_bet_amount = 0
    /\ Len(community) = 4
    /\ remaining(deck) = 36
    /\ Cardinality(Burned) = 2
    /\ pot > 0

\* the seat the policy was called for, what it faced and what it returned
PolicySeat == to_act_index
PolicyToCall == to_call(Table, PolicySeat)
PolicyAction == cpu_call[1]
PolicyTotal == cpu_call[2]
PolicyCalled == to_act_index \in CPUSeats /\ hand_number = 0 /\ cpu_call # <<>>

\* C34: the CPU policy returns Fold, Call or Raise only when to_call > 0 and the seat
\* is unfolded with chips > 0; when to_call <= 0 it returns Check, or Bet only for an
\* Aggressive seat (to 2 x big_blind) or a Neutral seat (to big_blind) holding more
\* than one big blind, a Defensive seat then always returning Check; a folded or
\* chip-less seat always returns Check.
C34_PolicyActions ==
    PolicyCalled =>
       /\ PolicyAction \in Actions
       /\ PolicyAction \in {FOLD, CALL, RAISE} =>
             PolicyToCall > 0 /\ ~folded[PolicySeat] /\ chips[PolicySeat] > 0
       /\ PolicyToCall <= 0 =>
             /\ PolicyAction \in {CHECK, BET}
             /\ PolicyAction = BET =>
                   /\ chips[PolicySeat] > bb_amount
                   /\ \/ Personality(PolicySeat) = AGGRESSIVE /\ PolicyTotal = 2 * bb_amount
                      \/ Personality(PolicySeat) = NEUTRAL /\ PolicyTotal = bb_amount
             /\ Personality(PolicySeat) = DEFENSIVE => PolicyAction = CHECK
       /\ (folded[PolicySeat] \/ chips[PolicySeat] <= 0) => cpu_call = <<CHECK, None>>

\* an Aggressive seat with nothing to call opens for two big blinds
C34_Witness ==
    /\ PolicyCalled /\ PolicyToCall = 0
    /\ Personality(PolicySeat) = AGGRESSIVE
    /\ ~folded[PolicySeat] /\ chips[PolicySeat] > bb_amount
    /\ cpu_call = <<BET, 2 * bb_amount>>

\* C40: every raise_to_total the CPU policy proposes with a Raise is at least
\* current_bet + 2 x big_blind, hence never below the table's minimum legal raise-to
\* (current_bet_amount + max(1, big_blind)); the engine only ever clamps a CPU raise
\* downwards, to the all-in cap, never upwards.
C40_CpuRaiseAboveMinimum ==
    (PolicyCalled /\ PolicyAction = RAISE) =>
       LET t == Table
           cap == Get(current_bets, PolicySeat) + chips[PolicySeat]
       IN  /\ PolicyTotal >= current_bet_amount + 2 * bb_amount
           /\ PolicyTotal >= min_raise_to(t)
           /\ raise_target(t, PolicySeat, PolicyTotal) <= PolicyTotal
           /\ raise_target(t, PolicySeat, PolicyTotal) = Min(PolicyTotal, cap)

\* a raise the engine caps at the seat's stack
C40_Witness ==
    /\ PolicyCalled /\ PolicyAction = RAISE
    /\ PolicyTotal > Get(current_bets, PolicySeat) + chips[PolicySeat]
    /\ raise_target(Table, PolicySeat, PolicyTotal)
          = Get(current_bets, PolicySeat) + chips[PolicySeat]
    /\ PolicyTotal >= min_raise_to(Table)

\* an iteration of the strength estimate has just run
IterationRan == cpu_call # <<>> /\ cpu_call' # <<>> /\ cpu_call'[1] = cpu_call[1] + 1
\* the strength estimate has just returned
StrengthReturned == cpu_call # <<>> /\ cpu_call[6] = <<>> /\ cpu_call'[6] # <<>>

\* C35: in every iteration of the CPU's strength estimate, for every possible random
\* draw, the sampled opponent hole cards and the sampled board-completion cards are
\* pairwise distinct, contain none of the seat's own hole cards and none of the
\* revealed community cards, and the completed board has exactly 5 cards; the
\* returned strength is wins / iterations with a win counted when the seat's
\* (category, tie_break) is >= the opponent's.
C35_SamplesAreFresh ==
    [][/\ IterationRan =>
            LET hole == hand[EstimateSeat]
                opp == cpu_call'[3]
                board == cpu_call'[4]
                added == SubSeq(board, Len(community) + 1, Len(board))
                sampled == opp \o added
                mine == best_of_7(hole \o board)
                theirs == best_of_7(opp \o board)
            IN  /\ Len(opp) = 2
                /\ Len(board) = 5
                /\ SubSeq(board, 1, Len(community)) = community
                /\ Cardinality(SeqToSet(sampled)) = Len(sampled)
                /\ SeqToSet(sampled) \subseteq Cards
                /\ SeqToSet(sampled) \cap SeqToSet(hole) = {}
                /\ SeqToSet(sampled) \cap SeqToSet(community) = {}
                /\ cpu_call'[5] = (IF ScoreAtLeast(mine, theirs) THEN 1 ELSE 0)
                /\ cpu_call'[2] = cpu_call[2] + cpu_call'[5]
       /\ StrengthReturned =>
            /\ cpu_call'[6] = <<cpu_call[2], Iters>>
            /\ cpu_call[2] \in 0 .. cpu_call[1]
            /\ Len(hand[EstimateSeat]) = 2 => cpu_call[1] = Iters]_vars

\* all iterations ran on a flop, some won and some lost, and the strength came back
C35_Witness ==
    /\ cpu_call # <<>> /\ to_act_index = EstimateSeat /\ Len(community) = 3
    /\ cpu_call[1] = Iters
    /\ cpu_call[2] \in 1 .. (Iters - 1)
    /\ cpu_call[6] = <<cpu_call[2], Iters>>

\* C36: after start_new_game(), whatever sequence of start_new_hand(), apply_action(),
\* human_action() and update() calls follows, start_new_hand() in the middle of a
\* hand included, pot + the sum of all seats' chips stays equal to seat count x
\* starting chips.
C36_ChipsNeverLost == pot + TotalChips(chips) = NumPlayers * StartingChips

\* the table as the action leaves it before the turn moves on: the fold flag set, or
\* the chips of the call or of the clamped raise paid in
Committing(t, seat, action, raise_to_total) ==
    LET prev_bet == Get(t.current_bets, seat)
    IN  IF action = FOLD THEN [t EXCEPT !.folded[seat] = TRUE]
        ELSE IF action \in {CHECK, CALL}
        THEN bet_to(t, seat, prev_bet, prev_bet + to_call(t, seat)).t
        ELSE bet_to(t, seat, prev_bet, raise_target(t, seat, raise_to_total)).t

\* the action closes the betting round: the street moves on or the hand ends
Closes(t, seat, action, raise_to_total) ==
    LET after == apply_action(t, seat, action, raise_to_total)
    IN  /\ ~ignored(t, seat)
        /\ after.street # t.street \/ ~after.hand_active

\* C37: whenever a betting round closes with two or more unfolded seats, every
\* unfolded seat that still has chips > 0 has a current-street commitment exactly
\* equal to current_bet_amount; only seats that are all-in (0 chips) may have
\* committed less.
C37_RoundClosesMatched ==
    LET t == Table
    IN  \A a \in Actions, r \in RaiseTotals :
          LET seat == t.to_act_index
              mid == Committing(t, seat, a, r)
          IN  (/\ t.hand_active /\ seat # None
               /\ Closes(t, seat, a, r)
               /\ Len(active_seats(mid)) >= 2) =>
                 \A s \in Seats :
                    ~mid.folded[s] =>
                       /\ Get(mid.current_bets, s) <= mid.current_bet_amount
                       /\ mid.chips[s] > 0 =>
                             Get(mid.current_bets, s) = mid.current_bet_amount

\* a call closes a round in which a raise stands: the caller keeps chips and has
\* matched it, while an all-in seat is in for less
C37_Witness ==
    LET t == Table
        seat == t.to_act_index
    IN  /\ t.hand_active /\ seat # None
        /\ Closes(t, seat, CALL, None)
        /\ LET mid == Committing(t, seat, CALL, None)
           IN  /\ Len(active_seats(mid)) >= 2
               /\ mid.current_bet_amount > t.bb_amount
               /\ mid.chips[seat] > 0
               /\ Get(mid.current_bets, seat) = mid.current_bet_amount
               /\ \E s \in Seats : /\ ~mid.folded[s] /\ mid.chips[s] = 0
                                   /\ Get(mid.current_bets, s) < mid.current_bet_amount

\* the hand ends on this step before any street has passed, so that current_bets
\* still holds all a seat has put in since the deal
EndsPreFlop ==
    /\ hand_active /\ street = PRE_FLOP
    /\ ~hand_active' /\ hand_number' = hand_number

\* C38: a seat that held 0 chips when the hand was dealt, and so has posted nothing
\* and put nothing in the pot, is never awarded that hand's pot: its chips are still
\* 0 when the hand ends.
C38_ChiplessNeverAwarded ==
    [][EndsPreFlop =>
          \A s \in Seats :
             (chips[s] = 0 /\ Get(current_bets, s) = 0) => chips'[s] = 0]_vars

\* the bet level is the greatest street bet, 0 when no seat has one
BetLevelIsMax ==
    /\ current_bet_amount = SetMax(Values(current_bets), 0)
    /\ \A s \in Seats : Get(current_bets, s) <= current_bet_amount
    /\ current_bet_amount >= 0

\* C39: in every reachable state current_bet_amount equals the maximum of the
\* per-seat current_bets (0 when there are none), no seat's current bet exceeds it,
\* and within one street current_bet_amount never decreases.
C39_BetLevelIsMax ==
    [][/\ BetLevelIsMax
       /\ BetLevelIsMax'
       /\ (hand_number' = hand_number /\ street' = street) =>
             current_bet_amount' >= current_bet_amount]_vars

\* a short big blind has posted less than the small blind: the level is the small
\* blind's bet
C39_Witness ==
    /\ hand_active /\ street = PRE_FLOP
    /\ last_action_text.kind = "Posted blinds" /\ chips[big_blind_index] = 0
    /\ Get(current_bets, big_blind_index) < Get(current_bets, (big_blind_index - 1) % NumPlayers)
    /\ current_bet_amount = Get(current_bets, (big_blind_index - 1) % NumPlayers)
    /\ current_bet_amount > 0

====
